---- MODULE Spec2Model ----
(***************************************************************************)
(* Verification model of GraphQnA (veteranbv/GraphQnA).                    *)
(*                                                                         *)
(* Components modelled here:                                               *)
(*   - HybridRetriever / QueryClassifier  (retrieval/hybrid_retriever.py)  *)
(*   - the concrete retrievers' error absorption (retrieval/*.py)          *)
(*   - QueryResponse validation           (models/response.py)             *)
(*   - RetrievalService                   (retrieval/service.py)           *)
(*   - RateLimiter / verify_api_key       (api/server.py)                  *)
(*   - Neo4jDatabase                      (db/neo4j.py)                    *)
(*   - DocumentChunker                    (ingest/chunker.py)              *)
(*   - embedding dimension normalization  (retrieval/base.py, ...)         *)
(*   - IngestionPipeline                  (ingest/pipeline.py)             *)
(*   - the db and ingest console commands (cli/commands/*.py)              *)
(*   - API requests on the shared database (api/server.py get_db)          *)
(*   - Document / DocumentMetadata, chunk storage (models/document.py,     *)
(*     ingest/embedder.py)                                                 *)
(*   - EnhancedKGRetriever                (retrieval/enhanced_kg.py)       *)
(*   - the chat bot's event handlers      (api/slack_bot.py)               *)
(*                                                                         *)
(* Each component has its own specification over the shared variables;     *)
(* the variables of the other components stay at their initial value.      *)
(***************************************************************************)
EXTENDS Integers, Sequences, FiniteSets, TLC

VARIABLES
    hyb_impl,      \* HybridRetriever.retrievers: per slot, the repository's retriever or an injected one
    hyb,           \* the HybridRetriever call in progress / its outcome
    svc_cache,     \* RetrievalService._<x>_retriever: instance id, 0 = None
    svc_next_id,   \* next fresh object identity
    svc_subs,      \* the sub-retriever instances held by the cached HybridRetriever
    svc_last,      \* outcome of the last RetrievalService call
    requests,      \* RateLimiter.requests: dict IP -> list of timestamps
    now,           \* datetime.now(), in ticks
    admitted,      \* history: per limiter key, the times of the requests let through in the last minute
    api_cfg,       \* settings.api_key ("" = not configured, NoAttribute = the object has no such field)
    api_last,      \* outcome of the last request through verify_api_key
    db_cls,        \* Neo4jDatabase class attributes: _instance, _settings, _driver, _async_driver
    db_next_id,    \* identity of the next Neo4jDatabase object that object.__new__ would create
    db_graph,      \* contents of the graph database: nodes (with labels) and relationships (with type)
    db_last,       \* outcome of the last Neo4jDatabase operation
    chk_in,        \* DocumentChunker: the document text and the chunking settings
    chk_out,       \* DocumentChunker: outcome of chunk_document
    emb_in,        \* a raw embedding and the configured dimensionality
    emb_out,       \* outcome of the last embedding normalization
    ing_schema,    \* IngestionPipeline.detected_schema ("None" or the schema's origin)
    ing_task,      \* per document, its ingest_document coroutine
    ing_log,       \* history: the schema detections and chunk extractions, in order
    cli_data,      \* console: whether the database holds data ("data" / "empty")
    cli_index,     \* console: whether the vector index exists ("present" / "absent")
    cli_last,      \* console: the command that ran last and what it did
    req_work,      \* API: per request, how far its unit of work on the shared database is
    doc_last,      \* data models: the last construction and its outcome
    kg_last,       \* EnhancedKGRetriever: the last Cypher generation and its outcome
    bot_last       \* chat bot: the last event handled and what was posted

vars == <<hyb_impl, hyb, svc_cache, svc_next_id, svc_subs, svc_last,
          requests, now, admitted, api_cfg, api_last,
          db_cls, db_next_id, db_graph, db_last, chk_in, chk_out,
          emb_in, emb_out, ing_schema, ing_task, ing_log,
          cli_data, cli_index, cli_last, req_work, doc_last, kg_last, bot_last>>

hybVars == <<hyb_impl, hyb>>
svcVars == <<svc_cache, svc_next_id, svc_subs, svc_last>>
apiVars == <<requests, now, admitted, api_cfg, api_last>>
dbVars == <<db_cls, db_next_id, db_graph, db_last>>
\* the database, ingestion and console components
chunkVars == <<chk_in, chk_out>>
embVars == <<emb_in, emb_out>>
ingVars == <<ing_schema, ing_task, ing_log>>
cliVars == <<cli_data, cli_index, cli_last>>
\* the API's units of work, the data models, Cypher generation and the bot
otherVars == <<req_work, doc_last, kg_last, bot_last>>
offlineVars == <<dbVars, chunkVars, embVars, ingVars, cliVars, otherVars>>

(***************************************************************************)
(* Bounds                                                                  *)
(***************************************************************************)
MaxResults == 3        \* longest result list a retriever returns in the model
MaxTime == 3           \* last clock tick
Minute == 2            \* timedelta(minutes=1), in ticks
requests_per_minute == 2   \* RateLimiter(requests_per_minute=60), scaled down
MaxNodes == 2          \* most nodes in the database
MaxRels == 2           \* most relationships in the database
batch_size == 2        \* create_backup's batch_size = 1000, scaled down
MaxLen == 7            \* longest document text, in characters
MaxEmbedding == 3      \* longest raw embedding
MaxDimensions == 3     \* largest configured dimensionality
MaxChunks == 2         \* most chunks of a document in the pipeline
MaxLines == 30         \* longest backup file: a write beyond it is never interrupted
MaxRequests == 3       \* most API requests in progress at once
MaxText == 3           \* longest text handed to a Document constructor
MaxStored == 3         \* most chunks of a document handed to store_document_embeddings
MaxTokens == 5         \* longest reply of the model to the Cypher prompt, in tokens
MaxAnswer == 2         \* longest answer the bot receives, in sentences

Min(S) == CHOOSE x \in S : \A y \in S : x <= y

(***************************************************************************)
(* models/response.py : QueryResponse                                      *)
(***************************************************************************)
\* The literal marker "Not applicable:" is one token of an answer; an answer
\* is a sequence of tokens and `in` is token containment.
Marker == "Not applicable:"

HasMarker(answer) == \E i \in DOMAIN answer : answer[i] = Marker

validate_answer(v) ==
    IF v = <<>> \/ (\A i \in DOMAIN v : v[i] = " ")
    THEN <<"I don't have enough information">>
    ELSE v

validate_retrieval_method(v) == v \in ({"vector", "graphrag", "graph", "kg", "enhanced_kg", "hybrid"})

\* Constructing a QueryResponse either yields the object or raises the
\* validation error of validate_retrieval_method.
QueryResponse(answer, retrieval_method, query_time, context, metadata) ==
    IF validate_retrieval_method(retrieval_method)
    THEN [kind |-> "ok",
          resp |-> [answer |-> validate_answer(answer),
                    retrieval_method |-> retrieval_method,
                    query_time |-> query_time,
                    context |-> context,
                    metadata |-> metadata]]
    ELSE [kind |-> "raise", err |-> "ValidationError"]

(***************************************************************************)
(* retrieval/hybrid_retriever.py : QueryClassifier                         *)
(***************************************************************************)
QueryType == <<"factual", "procedural", "entity", "relationship">>  \* enum order

Errors == {"e1", "e2"}

ClassifierOutcomes ==
    [kind : {"ok"}, content : ({ <<"factual">>, <<"PROCEDURAL">>, <<"Entity">>, <<"relationship">>, <<"relationship", "entity">>, <<"unsure">> })] \cup [kind : {"raise"}, err : {"e1"}]

\* variant: the model's exception is not turned into a classification
classify_propagating(llm) == IF llm.kind = "raise" THEN "raised" ELSE "factual"

\* QueryClassifier.classify, from the model call on
classify(llm) ==
    IF llm.kind = "raise"
    THEN "factual"
    ELSE LET \* str.lower() of a word of the reply
             lower(w) == CASE w = "PROCEDURAL" -> "procedural"
                           [] w = "Entity" -> "entity"
                           [] OTHER -> w
             response == [i \in DOMAIN llm.content |-> lower(llm.content[i])]
             hits == {k \in DOMAIN QueryType :
                        \E i \in DOMAIN response : response[i] = QueryType[k]}
         IN IF hits = {} THEN "factual" ELSE QueryType[Min(hits)]

(***************************************************************************)
(* retrieval/hybrid_retriever.py : HybridRetriever                         *)
(***************************************************************************)
Methods == {"vector", "graphrag", "kg", "enhanced_kg"}

_get_retrieval_plan(query_type) ==
    IF query_type = "entity" THEN [primary |-> "enhanced_kg", fallback |-> "graphrag"]
    ELSE IF query_type = "relationship" THEN [primary |-> "enhanced_kg", fallback |-> "kg"]
    ELSE IF query_type = "procedural" THEN [primary |-> "graphrag", fallback |-> "vector"]
    ELSE [primary |-> "graphrag", fallback |-> "vector"]

RECURSIVE SeqsUpTo(_, _)
SeqsUpTo(S, n) ==
    IF n = 0 THEN {<<>>}
    ELSE LET shorter == SeqsUpTo(S, n - 1)
         IN shorter \cup {Append(s, x) : s \in {t \in shorter : Len(t) = n - 1}, x \in S}

\* variant: any non-empty result list counts as good
_has_good_results_nonempty(results, method) == results # <<>>

_has_good_results(results, method) ==
    IF results = <<>> THEN FALSE
    ELSE IF method \in {"kg", "enhanced_kg"}
         THEN \E i \in DOMAIN results : \E j \in DOMAIN results[i] : results[i][j] # 0
         ELSE Len(results) >= 3

\* <Retriever>.retrieve of the slot's object.  The four retrievers of the
\* repository catch every exception of the search and return [] ; an injected
\* retriever lets it through.
retriever_retrieve(impl, m, raw) ==
    IF impl[m] = "concrete" /\ raw.kind = "raise"
    THEN [kind |-> "ok", results |-> <<>>]
    ELSE raw

Call(m, out) == [method |-> m, out |-> out]

retrieve(impl, cls, p, f, v) ==
    LET query_type == classify(cls)
        plan == _get_retrieval_plan(query_type)
        pm == plan.primary
        fm == plan.fallback
        pr == retriever_retrieve(impl, pm, p)
        fr == retriever_retrieve(impl, fm, f)
        vr == retriever_retrieve(impl, "vector", v)
    IN  IF pr.kind = "ok" /\ _has_good_results(pr.results, pm)
        THEN [op |-> "retrieve", cls |-> cls, query_type |-> query_type, plan |-> plan, calls |-> <<Call(pm, pr)>>, result |-> pr]
        ELSE IF fr.kind = "ok"
        THEN [op |-> "retrieve", cls |-> cls, query_type |-> query_type, plan |-> plan,
              calls |-> <<Call(pm, pr), Call(fm, fr)>>, result |-> fr]
        ELSE IF fm # "vector"
        THEN [op |-> "retrieve", cls |-> cls, query_type |-> query_type, plan |-> plan,
              calls |-> <<Call(pm, pr), Call(fm, fr), Call("vector", vr)>>, result |-> vr]
        ELSE [op |-> "retrieve", cls |-> cls, query_type |-> query_type, plan |-> plan,
              calls |-> <<Call(pm, pr), Call(fm, fr)>>,
              result |-> [kind |-> "ok", results |-> <<>>]]

\* method tag each retriever writes into its responses
MethodTag(m) == IF m = "enhanced_kg" THEN "kg" ELSE m

\* <Retriever>.answer_question of the slot's object.
retriever_answer(impl, m, raw) ==
    IF raw.kind = "ok"
    THEN QueryResponse(raw.answer, MethodTag(m), 0, raw.context, {})
    ELSE IF impl[m] # "concrete"
    THEN raw
    ELSE IF m = "enhanced_kg"
    THEN QueryResponse((<<Marker, "not available in the knowledge base">>), "kg", 0, "empty", {<<"error", raw.err>>})
    ELSE QueryResponse(<<"Error retrieving answer:", raw.err>>, m, 0, "empty",
                       {<<"error", raw.err>>})

Apology == <<"I apologize, but I encountered an error">>

\* variant: the fallback's response is fetched but the primary's is returned
prefer_fallback_dropped(response, fallback_response) == response

\* lines 311-316: the fallback's response wins when it has no marker
prefer_fallback(response, fallback_response) ==
    IF ~HasMarker(fallback_response.resp.answer) THEN fallback_response ELSE response

\* variant: only the primary's error is recorded
generic_error_response_one_error(e, e2) ==
    QueryResponse(Apology, "hybrid", 0, "empty", {<<"error", e>>})

\* lines 336-343: the generic error response built when both strategies raised
generic_error_response(e, e2) ==
    QueryResponse(Apology, "hybrid", 0, "empty",
                  {<<"error", e>>, <<"fallback_error", e2>>})

answer_question(impl, cls, p, f1, f2) ==
    LET query_type == classify(cls)
        plan == _get_retrieval_plan(query_type)
        pm == plan.primary
        fm == plan.fallback
        pr == retriever_answer(impl, pm, p)
        fr1 == retriever_answer(impl, fm, f1)
        fr2 == retriever_answer(impl, fm, f2)
        rec(calls, result) == [op |-> "answer", cls |-> cls, query_type |-> query_type,
                               plan |-> plan, p |-> p, f |-> f1,
                               calls |-> calls, result |-> result]
    IN  IF pr.kind = "ok"
        THEN IF HasMarker(pr.resp.answer)
             THEN IF fr1.kind = "ok"
                  THEN rec(<<Call(pm, pr), Call(fm, fr1)>>, prefer_fallback(pr, fr1))
                  ELSE \* the fallback's exception lands in the outer handler,
                       \* which runs the fallback again
                       rec(<<Call(pm, pr), Call(fm, fr1), Call(fm, fr2)>>,
                           IF fr2.kind = "ok" THEN fr2
                           ELSE generic_error_response(fr1.err, fr2.err))
             ELSE rec(<<Call(pm, pr)>>, pr)
        ELSE rec(<<Call(pm, pr), Call(fm, fr1)>>,
                 IF fr1.kind = "ok" THEN fr1
                 ELSE generic_error_response(pr.err, fr1.err))

Idle == [op |-> "idle"]

HybridRetrieve ==
    /\ hyb = Idle
    /\ \E cls \in ClassifierOutcomes, p, f, v \in ([kind : {"ok"}, results : (SeqsUpTo(({<<0>>, <<1>>}), MaxResults))] \cup [kind : {"raise"}, err : Errors]) :
          hyb' = retrieve(hyb_impl, cls, p, f, v)
    /\ UNCHANGED <<hyb_impl, svcVars, apiVars, offlineVars>>

HybridAnswerQuestion ==
    /\ hyb = Idle
    /\ \E cls \in ClassifierOutcomes, p, f1, f2 \in ([kind : {"ok"}, answer : ({ <<>>, <<"info">>, <<Marker>>, <<"info", Marker>> }), context : ({"ctx1", "ctx2"})] \cup [kind : {"raise"}, err : Errors]) :
          hyb' = answer_question(hyb_impl, cls, p, f1, f2)
    /\ UNCHANGED <<hyb_impl, svcVars, apiVars, offlineVars>>

\* the caller takes the outcome
HybridReturn ==
    /\ hyb # Idle
    /\ hyb' = Idle
    /\ UNCHANGED <<hyb_impl, svcVars, apiVars, offlineVars>>

(***************************************************************************)
(* retrieval/service.py : RetrievalService                                 *)
(***************************************************************************)
RetrievalMethod == {"vector", "graphrag", "kg", "enhanced_kg", "hybrid"}  \* enum values

MethodArgs ==
    [type : {"str"}, v : ({"vector", "Vector", "VECTOR", "graphrag", "kg", "KG", "enhanced_kg", "hybrid", "HYBRID", "foo", "FOO"})] \cup [type : {"enum"}, v : RetrievalMethod]

\* str.lower()
StrLower(s) ==
    CASE s \in {"Vector", "VECTOR"} -> "vector"
      [] s = "KG" -> "kg"
      [] s = "HYBRID" -> "hybrid"
      [] s = "FOO" -> "foo"
      [] s = "ABC" -> "abc"
      [] s = "Abc" -> "abc"
      [] s \in {"I don't have enough information", "I DON'T HAVE ENOUGH INFORMATION"}
           -> "i don't have enough information"
      [] s = "I couldn't find information" -> "i couldn't find information"
      [] s = "No relevant information" -> "no relevant information"
      [] OTHER -> s

\* variant: the name is looked up without lower()
NormalizeMethod_case_sensitive(method) ==
    IF method.type = "enum" THEN method.v
    ELSE IF method.v \in RetrievalMethod THEN method.v ELSE ""

\* the normalisation at the top of get_retriever: the enum value, or "" when
\* RetrievalMethod(...) raises ValueError
NormalizeMethod(method) ==
    IF method.type = "enum" THEN method.v
    ELSE IF StrLower(method.v) \in RetrievalMethod THEN StrLower(method.v) ELSE ""

NoSubs == [m \in Methods |-> 0]

\* HybridRetriever.__init__ : `given or Fresh(...)` for the four slots, fresh
\* objects numbered from next_id in the order vector, graphrag, kg, enhanced_kg
SlotOrder == <<"vector", "graphrag", "kg", "enhanced_kg">>

\* variant: every slot gets a fresh object, whatever the facade holds
WireHybrid_all_fresh(cache, next_id) ==
    [m \in Methods |-> next_id + (CHOOSE i \in 1..4 : SlotOrder[i] = m) - 1]

WireHybrid(cache, next_id) ==
    [m \in Methods |->
        LET k == CHOOSE i \in 1..4 : SlotOrder[i] = m
            \* the slots before this one that get a fresh object too
            missing_before == Cardinality({j \in 1..(k - 1) : cache[SlotOrder[j]] = 0})
        IN IF cache[m] # 0 THEN cache[m] ELSE next_id + missing_before]

\* get_retriever(method); ctor says whether a constructor that has to run raises.
\* Yields the outcome and the service's fields afterwards.
get_retriever(cache, next_id, subs, method, ctor) ==
    LET m == NormalizeMethod(method)
        same == [cache |-> cache, next_id |-> next_id, subs |-> subs]
    IN  IF m = ""
        THEN [out |-> [kind |-> "raise",
                       err |-> <<"Invalid retrieval method:", method.v>>]] @@ same
        ELSE IF cache[m] # 0
        THEN [out |-> [kind |-> "ok", retriever |-> cache[m]]] @@ same
        ELSE IF ctor = "raise"
        THEN [out |-> [kind |-> "raise", err |-> <<"constructor failed">>]] @@ same
        ELSE IF m = "hybrid"
        THEN LET wired == WireHybrid(cache, next_id)
                 fresh == Cardinality({x \in Methods : cache[x] = 0})
             IN [out |-> [kind |-> "ok", retriever |-> next_id + fresh],
                 cache |-> [cache EXCEPT !["hybrid"] = next_id + fresh],
                 next_id |-> next_id + fresh + 1,
                 subs |-> wired]
        ELSE [out |-> [kind |-> "ok", retriever |-> next_id],
              cache |-> [cache EXCEPT ![m] = next_id],
              next_id |-> next_id + 1,
              subs |-> subs]

MaxElapsed == 1

\* RetrievalService.answer_question
service_answer_question(cache, next_id, subs, method, ctor, raw, elapsed) ==
    LET g == get_retriever(cache, next_id, subs, method, ctor)
        same == [cache |-> g.cache, next_id |-> g.next_id, subs |-> g.subs]
        \* str(method): a string is itself, an enum member prints as Class.MEMBER
        str_method == IF method.type = "str" THEN method.v
                      ELSE CASE method.v = "vector" -> "RetrievalMethod.VECTOR"
                             [] method.v = "graphrag" -> "RetrievalMethod.GRAPHRAG"
                             [] method.v = "kg" -> "RetrievalMethod.KG"
                             [] method.v = "enhanced_kg" -> "RetrievalMethod.ENHANCED_KG"
                             [] OTHER -> "RetrievalMethod.HYBRID"
        error(e) == QueryResponse(<<"Error:">> \o e, str_method, elapsed, "empty",
                                  {<<"error", e>>})
    IN  IF g.out.kind = "raise"
        THEN [out |-> error(g.out.err)] @@ same
        ELSE IF raw.kind = "raise"
        THEN [out |-> error(<<raw.err>>)] @@ same
        ELSE [out |-> QueryResponse(raw.answer, MethodTag(NormalizeMethod(method)), elapsed,
                                    "ctx1", {})] @@ same

SvcGetRetriever ==
    /\ svc_last = Idle
    /\ \E method \in MethodArgs, ctor \in {"ok", "raise"} :
          LET g == get_retriever(svc_cache, svc_next_id, svc_subs, method, ctor)
          IN /\ svc_cache' = g.cache
             /\ svc_next_id' = g.next_id
             /\ svc_subs' = g.subs
             /\ svc_last' = [op |-> "get_retriever", method |-> method, out |-> g.out,
                             hit |-> (NormalizeMethod(method) # ""
                                        /\ svc_cache[NormalizeMethod(method)] # 0)]
    /\ UNCHANGED <<hybVars, apiVars, offlineVars>>

SvcAnswerQuestion ==
    /\ svc_last = Idle
    /\ \E method \in MethodArgs, ctor \in {"ok", "raise"},
          raw \in ([kind : {"ok"}, answer : {<<"info">>, <<Marker>>}] \cup [kind : {"raise"}, err : Errors]), elapsed \in 0..MaxElapsed :
          LET a == service_answer_question(svc_cache, svc_next_id, svc_subs,
                                           method, ctor, raw, elapsed)
          IN /\ svc_cache' = a.cache
             /\ svc_next_id' = a.next_id
             /\ svc_subs' = a.subs
             /\ svc_last' = [op |-> "answer_question", method |-> method,
                             raw |-> raw, elapsed |-> elapsed, out |-> a.out]
    /\ UNCHANGED <<hybVars, apiVars, offlineVars>>

\* the caller takes the outcome
SvcReturn ==
    /\ svc_last # Idle
    /\ svc_last' = Idle
    /\ UNCHANGED <<svc_cache, svc_next_id, svc_subs, hybVars, apiVars, offlineVars>>

(***************************************************************************)
(* api/server.py : RateLimiter, get_client_ip, verify_api_key              *)
(***************************************************************************)
LimiterKeys == {"p1", "p2", "c1", "c2", "unknown"}   \* every value a client IP can take

\* config/settings.py : class Settings declares no api_key field, so reading
\* settings.api_key on the object get_settings() returns raises AttributeError;
\* only a settings object injected through the dependency carries a key.
NoAttribute == "AttributeError"

\* list comprehension [ts for ts in l if ts > t]
RECURSIVE Newer(_, _)
Newer(l, t) ==
    IF l = <<>> THEN <<>>
    ELSE IF Head(l) > t THEN <<Head(l)>> \o Newer(Tail(l), t)
    ELSE Newer(Tail(l), t)

\* variant: the limit test is > instead of >=
is_rate_limited_off_by_one(reqs, ip, t) ==
    LET minute_ago == t - Minute
        cleaned == IF ip \in DOMAIN reqs
                   THEN [reqs EXCEPT ![ip] = Newer(reqs[ip], minute_ago)]
                   ELSE reqs
    IN  IF ip \in DOMAIN cleaned /\ Len(cleaned[ip]) > requests_per_minute
        THEN [limited |-> TRUE, requests |-> cleaned]
        ELSE [limited |-> FALSE,
              requests |-> [k \in DOMAIN cleaned \cup {ip} |->
                               IF k = ip
                               THEN (IF ip \in DOMAIN cleaned THEN cleaned[ip] ELSE <<>>)
                                        \o <<t>>
                               ELSE cleaned[k]]]

\* RateLimiter.is_rate_limited(ip) at time t: the verdict and the table afterwards
is_rate_limited(reqs, ip, t) ==
    LET minute_ago == t - Minute
        cleaned == IF ip \in DOMAIN reqs
                   THEN [reqs EXCEPT ![ip] = Newer(reqs[ip], minute_ago)]
                   ELSE reqs
    IN  IF ip \in DOMAIN cleaned /\ Len(cleaned[ip]) >= requests_per_minute
        THEN [limited |-> TRUE, requests |-> cleaned]
        ELSE [limited |-> FALSE,
              requests |-> [k \in DOMAIN cleaned \cup {ip} |->
                               IF k = ip
                               THEN (IF ip \in DOMAIN cleaned THEN cleaned[ip] ELSE <<>>)
                                        \o <<t>>
                               ELSE cleaned[k]]]

\* get_client_ip(request)
get_client_ip(request) ==
    IF request.forwarded # <<>>
    THEN LET first == request.forwarded[1]
         IN \* str.strip()
            IF first = " c1" THEN "c1" ELSE first
    ELSE IF request.client # "None" THEN request.client ELSE "unknown"

\* the key verify_api_key hands to the rate limiter
rate_limit_key(request) ==
    IF request.client # "None" THEN request.client ELSE "unknown"

\* the part of verify_api_key after the rate limiter let the request through
check_api_key(api_key, configured) ==
    IF configured = NoAttribute
    THEN [status |-> 500, detail |-> "Internal server error", log |-> ""]
    ELSE IF configured = ""
    THEN [status |-> 200, detail |-> "", log |-> "No API key configured"]
    ELSE IF api_key \in {"None", ""}
    THEN [status |-> 403, detail |-> "API key is required", log |-> "Missing API key"]
    ELSE IF StrLower(api_key) # StrLower(configured)
    THEN [status |-> 403, detail |-> "Invalid API key", log |-> "Invalid API key"]
    ELSE [status |-> 200, detail |-> "", log |-> ""]

\* verify_api_key(request, api_key, settings) at time t
verify_api_key(reqs, request, configured, t) ==
    LET client_ip == rate_limit_key(request)
        rl == is_rate_limited(reqs, client_ip, t)
    IN  IF rl.limited
        THEN [status |-> 429, detail |-> "Too many requests",
              log |-> "Rate limit exceeded", client_ip |-> client_ip,
              requests |-> rl.requests]
        ELSE check_api_key(request.api_key, configured)
                @@ [client_ip |-> client_ip, requests |-> rl.requests]

\* a request to a protected route
ApiRequest ==
    /\ api_last = Idle
    /\ \E request \in ([client : ({"p1", "p2", "None"}), forwarded : ({ <<>>, <<" c1">>, <<"c2", "p1">> }), api_key : ({"None", "", "abc", "ABC", "xyz"})]) :
          LET v == verify_api_key(requests, request, api_cfg, now)
          IN /\ requests' = v.requests
             /\ admitted' = IF v.status = 429 THEN admitted
                            ELSE [admitted EXCEPT ![v.client_ip] = Append(@, now)]
             /\ api_last' = [op |-> "request", request |-> request, at |-> now,
                             status |-> v.status, detail |-> v.detail, log |-> v.log,
                             client_ip |-> v.client_ip,
                             seen |-> Len(admitted[v.client_ip])]
    /\ UNCHANGED <<now, api_cfg, hybVars, svcVars, offlineVars>>

\* the response goes out
ApiRespond ==
    /\ api_last # Idle
    /\ api_last' = Idle
    /\ UNCHANGED <<requests, now, admitted, api_cfg, hybVars, svcVars, offlineVars>>

\* the clock advances
Tick ==
    /\ now < MaxTime
    /\ now' = now + 1
    /\ admitted' = [k \in LimiterKeys |-> Newer(admitted[k], now' - Minute)]
    /\ UNCHANGED <<requests, api_cfg, api_last, hybVars, svcVars, offlineVars>>

(***************************************************************************)
(* Neo4jDatabase (db/neo4j.py)                                             *)
(***************************************************************************)
\* get_settings(): the process-wide settings object
get_settings == "global"

\* no embedding is being normalized
NoEmbedding == [embedding |-> <<>>, dimensions |-> 0]

\* no document is being chunked
NoDocument == [text |-> <<>>, chunk_size |-> 0, chunk_overlap |-> 0]

\* class attributes before the first construction (neo4j.py:54-56)
NoInstance ==
    [_instance |-> 0, _settings |-> "unset", _driver |-> "None", _async_driver |-> "None"]

\* a construction that builds a new object and new handles every time
Neo4jDatabase_new_always(cls, settings, fresh) ==
    [_instance |-> fresh,
     _settings |-> IF settings = "None" THEN get_settings ELSE settings,
     _driver |-> "None",
     _async_driver |-> "None"]

\* Neo4jDatabase.__new__: the class attributes after the call; the call
\* returns _instance of the result
Neo4jDatabase_new(cls, settings, fresh) ==
    IF cls._instance = 0
    THEN [_instance |-> fresh,
          _settings |-> IF settings = "None" THEN get_settings ELSE settings,
          _driver |-> "None",
          _async_driver |-> "None"]
    ELSE cls

\* Neo4jDatabase.connect
connect(cls, outcome) ==
    IF cls._driver # "None" THEN [cls |-> cls, raised |-> "none"]
    ELSE IF outcome = "driver_raises" THEN [cls |-> cls, raised |-> "ConnectionError"]
    ELSE IF outcome = "verify_raises"
         THEN [cls |-> [cls EXCEPT !._driver = "open"], raised |-> "ConnectionError"]
    ELSE [cls |-> [cls EXCEPT !._driver = "open"], raised |-> "none"]

\* Neo4jDatabase.connect_async
connect_async(cls, outcome) ==
    IF cls._async_driver # "None" THEN [cls |-> cls, raised |-> "none"]
    ELSE IF outcome = "driver_raises" THEN [cls |-> cls, raised |-> "ConnectionError"]
    ELSE IF outcome = "verify_raises"
         THEN [cls |-> [cls EXCEPT !._async_driver = "open"], raised |-> "ConnectionError"]
    ELSE [cls |-> [cls EXCEPT !._async_driver = "open"], raised |-> "none"]

\* Neo4jDatabase.close
close(cls) == [cls EXCEPT !._driver = "None", !._async_driver = "None"]

\* Neo4jDatabase.get_driver
get_driver(cls, outcome) ==
    IF cls._driver = "None" THEN connect(cls, outcome) ELSE [cls |-> cls, raised |-> "none"]

\* Neo4jDatabase.session and Neo4jDatabase.transaction around a block:
\* `with db.transaction() as tx: <block>`
transaction(cls, env) ==
    LET d == get_driver(cls, env.connect)
        none == [cls |-> d.cls, session_opened |-> FALSE, session_closed |-> FALSE,
                 begun |-> FALSE, block_run |-> FALSE, committed |-> FALSE,
                 commit_called |-> FALSE, rollback_called |-> FALSE,
                 rolled_back |-> FALSE, raised |-> "none"]
        opened == [none EXCEPT !.session_opened = TRUE, !.session_closed = TRUE]
        begun == [opened EXCEPT !.begun = TRUE, !.block_run = TRUE]
        failed == [begun EXCEPT !.rollback_called = TRUE]
    IN IF d.raised # "none" THEN [none EXCEPT !.raised = d.raised]
       ELSE IF env.begin = "raise" THEN [opened EXCEPT !.raised = "DriverError"]
       ELSE IF env.block = "ok" /\ env.commit = "ok"
            THEN [begun EXCEPT !.commit_called = TRUE, !.committed = TRUE]
       ELSE LET f == [failed EXCEPT !.commit_called = (env.block = "ok")]
            IN IF env.rollback = "ok"
               THEN [f EXCEPT !.rolled_back = TRUE, !.raised = "QueryError"]
               ELSE [f EXCEPT !.raised = "DriverError"]

\* node labels and relationship types, in the order db.labels() and
\* db.relationshipTypes() list them
Labels == <<"Chunk", "Document">>
RelTypes == <<"NEXT_CHUNK", "PART_OF">>

Range(f) == {f[i] : i \in DOMAIN f}

EmptyGraph == [nodes |-> <<>>, rels |-> <<>>]

\* Neo4jDatabase.count_nodes / count_relationships without a filter
count_nodes(g) == Len(g.nodes)
count_relationships(g) == Len(g.rels)

\* MATCH ... RETURN ... SKIP skip LIMIT limit over the matching rows
Page(rows, skip, limit) ==
    IF skip >= Len(rows) THEN <<>>
    ELSE SubSeq(rows, skip + 1, Min({Len(rows), skip + limit}))

\* the lines written for the node rows of one batch (neo4j.py:685-700)
RECURSIVE NodeStatements(_, _, _)
NodeStatements(g, label, rows) ==
    IF rows = <<>> THEN <<>>
    ELSE LET node == g.nodes[Head(rows)]
         IN (IF node.long_embedding THEN <<[kind |-> "comment"]>> ELSE <<>>)
            \o <<[kind |-> "node_create", node |-> Head(rows), label |-> label]>>
            \o NodeStatements(g, label, Tail(rows))

\* the `while True` loop over the batches of one label (neo4j.py:674-702)
RECURSIVE ExportNodes(_, _, _)
ExportNodes(g, label, skip) ==
    LET matching == SelectSeq([i \in 1..Len(g.nodes) |-> i],
                              LAMBDA i : label \in g.nodes[i].labels)
        result == Page(matching, skip, batch_size)
    IN IF result = <<>> THEN <<>>
       ELSE NodeStatements(g, label, result) \o ExportNodes(g, label, skip + batch_size)

\* the lines written for the relationship rows of one batch (neo4j.py:733-752)
RECURSIVE RelStatements(_, _, _)
RelStatements(g, rel_type, rows) ==
    IF rows = <<>> THEN <<>>
    ELSE <<[kind |-> "match"], [kind |-> "match"],
           [kind |-> "rel_create", rel |-> Head(rows), rel_type |-> rel_type]>>
         \o RelStatements(g, rel_type, Tail(rows))

\* the `while True` loop over the batches of one type (neo4j.py:722-754)
RECURSIVE ExportRels(_, _, _)
ExportRels(g, rel_type, skip) ==
    LET matching == SelectSeq([i \in 1..Len(g.rels) |-> i],
                              LAMBDA i : g.rels[i] = rel_type)
        result == Page(matching, skip, batch_size)
    IN IF result = <<>> THEN <<>>
       ELSE RelStatements(g, rel_type, result) \o ExportRels(g, rel_type, skip + batch_size)

\* `for label in node_labels` (neo4j.py:664-708)
RECURSIVE ExportLabels(_, _)
ExportLabels(g, i) ==
    IF i > Len(Labels) THEN <<>>
    ELSE <<[kind |-> "comment"]>> \o ExportNodes(g, Labels[i], 0)
         \o <<[kind |-> "blank"]>> \o ExportLabels(g, i + 1)

\* `for rel_type in rel_types` (neo4j.py:712-760)
RECURSIVE ExportRelTypes(_, _)
ExportRelTypes(g, i) ==
    IF i > Len(RelTypes) THEN <<>>
    ELSE <<[kind |-> "comment"]>> \o ExportRels(g, RelTypes[i], 0)
         \o <<[kind |-> "blank"]>> \o ExportRelTypes(g, i + 1)

\* Neo4jDatabase.create_backup: the lines of the file and the value
\* returned; `written` is how many lines reach the file before a driver or
\* file error, if there is one
create_backup(g, written) ==
    LET header == <<[kind |-> "comment"], [kind |-> "comment"], [kind |-> "comment"],
                    [kind |-> "total_nodes", n |-> count_nodes(g)],
                    [kind |-> "total_relationships", n |-> count_relationships(g)]>>
        lines == header \o ExportLabels(g, 1) \o ExportRelTypes(g, 1)
                 \o <<[kind |-> "comment"]>>
    IN IF written >= Len(lines) THEN [ret |-> TRUE, file |-> lines]
       ELSE [ret |-> FALSE, file |-> SubSeq(lines, 1, written)]

\* Neo4jDatabase(settings): a construction somewhere in the process;
\* settings "None" = argument omitted
DbNew ==
    /\ db_last = Idle
    /\ \E settings \in {"None", "s1", "s2"} :
          /\ db_cls' = Neo4jDatabase_new(db_cls, settings, db_next_id)
          /\ db_next_id' = IF db_cls'._instance = db_next_id THEN db_next_id + 1 ELSE db_next_id
          /\ db_last' = [op |-> "new", settings |-> settings, ret |-> db_cls'._instance]
    /\ UNCHANGED <<db_graph, hybVars, svcVars, apiVars, chunkVars, embVars, ingVars, cliVars, otherVars>>

\* db.connect() or db.connect_async() on the shared instance
DbConnect ==
    /\ db_last = Idle
    /\ db_cls._instance # 0
    /\ \E outcome \in ({"ok", "driver_raises", "verify_raises"}) :
       \E c \in {connect(db_cls, outcome), connect_async(db_cls, outcome)} :
          /\ db_cls' = c.cls
          /\ db_last' = [op |-> "connect", raised |-> c.raised]
    /\ UNCHANGED <<db_next_id, db_graph, hybVars, svcVars, apiVars, chunkVars, embVars, ingVars, cliVars, otherVars>>

\* db.close() on the shared instance
DbClose ==
    /\ db_last = Idle
    /\ db_cls._instance # 0
    /\ db_cls' = close(db_cls)
    /\ db_last' = [op |-> "close"]
    /\ UNCHANGED <<db_next_id, db_graph, hybVars, svcVars, apiVars, chunkVars, embVars, ingVars, cliVars, otherVars>>

\* `with db.transaction() as tx: ...` on the shared instance
DbTransaction ==
    /\ db_last = Idle
    /\ db_cls._instance # 0
    /\ \E env \in ([connect : ({"ok", "driver_raises", "verify_raises"}), begin : {"ok", "raise"}, block : {"ok", "raise"}, commit : {"ok", "raise"}, rollback : {"ok", "raise"}]) :
          LET t == transaction(db_cls, env)
          IN /\ db_cls' = t.cls
             /\ db_last' = [op |-> "transaction", env |-> env, tx |-> [t EXCEPT !.cls = 0]]
    /\ UNCHANGED <<db_next_id, db_graph, hybVars, svcVars, apiVars, chunkVars, embVars, ingVars, cliVars, otherVars>>

\* db.create_backup(path) on the shared instance
DbCreateBackup ==
    /\ db_last = Idle
    /\ db_cls._instance # 0
    /\ \E written \in 0..MaxLines :
          db_last' = [op |-> "create_backup"] @@ create_backup(db_graph, written)
    /\ UNCHANGED <<db_cls, db_next_id, db_graph, hybVars, svcVars, apiVars, chunkVars, embVars, ingVars, cliVars, otherVars>>

\* the caller takes the result
DbReturn ==
    /\ db_last # Idle
    /\ db_last' = Idle
    /\ UNCHANGED <<db_cls, db_next_id, db_graph, hybVars, svcVars, apiVars, chunkVars, embVars, ingVars, cliVars, otherVars>>

(***************************************************************************)
(* API requests on the shared database (api/server.py get_db)              *)
(***************************************************************************)
\* a request's get_db dependency constructs Neo4jDatabase(settings) and its
\* handler enters `with db.session()`: get_driver() connects when there is
\* no driver.  The handler then waits for the database with the session open
ReqBegin ==
    \E u \in 1..MaxRequests, outcome \in ({"ok", "driver_raises", "verify_raises"}) :
       LET cls == Neo4jDatabase_new(db_cls, "s1", db_next_id)
           d == get_driver(cls, outcome)
       IN /\ req_work[u].pc = "new"
          /\ db_cls' = d.cls
          /\ db_next_id' = IF cls._instance = db_next_id THEN db_next_id + 1 ELSE db_next_id
          /\ req_work' = [req_work EXCEPT
                             ![u].pc = IF d.raised = "none" THEN "open" ELSE "done"]
          /\ UNCHANGED <<db_graph, db_last, hybVars, svcVars, apiVars, chunkVars, embVars,
                         ingVars, cliVars, doc_last, kg_last, bot_last>>

\* the query returns and the `finally` of session() closes the session
ReqFinish ==
    \E u \in 1..MaxRequests :
       /\ req_work[u].pc = "open"
       /\ req_work' = [req_work EXCEPT ![u].pc = "done"]
       /\ UNCHANGED <<dbVars, hybVars, svcVars, apiVars, chunkVars, embVars,
                      ingVars, cliVars, doc_last, kg_last, bot_last>>

\* the `finally` of get_db: db.close() on the shared instance, which closes
\* the driver every open session of the process runs on
ReqTeardown ==
    \E u \in 1..MaxRequests :
       /\ req_work[u].pc = "done"
       /\ db_cls' = close(db_cls)
       /\ req_work' = [v \in 1..MaxRequests |->
                          IF v = u THEN [req_work[v] EXCEPT !.pc = "closed"]
                          ELSE IF req_work[v].pc = "open" /\ db_cls._driver # "None"
                          THEN [req_work[v] EXCEPT !.closed_under = TRUE]
                          ELSE req_work[v]]
       /\ UNCHANGED <<db_next_id, db_graph, db_last, hybVars, svcVars, apiVars, chunkVars,
                      embVars, ingVars, cliVars, doc_last, kg_last, bot_last>>

(***************************************************************************)
(* DocumentChunker (ingest/chunker.py)                                     *)
(***************************************************************************)
\* str.isspace for one character
isspace(c) == c \in {" ", "nl"}

Max(S) == CHOOSE x \in S : \A y \in S : x >= y

\* s[a:b] for 0 <= a
Slice(s, a, b) ==
    IF a >= Min({b, Len(s)}) THEN <<>> ELSE SubSeq(s, a + 1, Min({b, Len(s)}))

\* a split point that ignores max_size
_find_split_point_unbounded(text, max_size) == Len(text)

\* _find_split_point
_find_split_point(text, max_size) ==
    IF Len(text) <= max_size THEN Len(text)
    ELSE LET s == Slice(text, 0, max_size)
             paragraphs == {i \in 0..(Len(s) - 2) : s[i + 1] = "nl" /\ s[i + 2] = "nl"}
             lines == {i \in 0..(Len(s) - 1) : s[i + 1] = "nl"}
             \* s.rfind('\n\n') and s.rfind('\n')
             last_paragraph == IF paragraphs = {} THEN -1 ELSE Max(paragraphs)
             last_line == IF lines = {} THEN -1 ELSE Max(lines)
             window == {i \in (max_size \div 2 + 1)..(max_size - 1) : i < Len(text)}
             sentence == {i \in window : /\ text[i + 1] \in {".", "!", "?"}
                                         /\ (i + 1 >= Len(text) \/ isspace(text[i + 2]))}
             word == {i \in window : isspace(text[i + 1])}
         IN IF last_paragraph # -1 /\ 2 * last_paragraph > max_size THEN last_paragraph + 2
            ELSE IF last_line # -1 /\ 10 * last_line > 7 * max_size THEN last_line + 1
            ELSE IF sentence # {} THEN Max(sentence) + 1
            ELSE IF word # {} THEN Max(word) + 1
            ELSE max_size

\* the offsets at which the lines of text.split('\n') start
LineStarts(text) == {0} \cup {i \in 1..Len(text) : text[i] = "nl"}

\* the line that starts at offset start
LineAt(text, start) ==
    LET ends == {i \in start..(Len(text) - 1) : text[i + 1] = "nl"}
    IN Slice(text, start, IF ends = {} THEN Len(text) ELSE Min(ends))

\* line.strip()
strip(line) ==
    LET solid == {i \in DOMAIN line : ~isspace(line[i])}
    IN IF solid = {} THEN <<>> ELSE SubSeq(line, Min(solid), Max(solid))

\* number of "#" at the front of s
Hashes(s) ==
    LET other == {i \in DOMAIN s : s[i] # "#"}
    IN IF other = {} THEN Len(s) ELSE Min(other) - 1

\* re.match(r'^#{1,6}\s+.*$', line.strip())
IsHeading(line) ==
    LET l == strip(line)
        h == Hashes(l)
    IN h >= 1 /\ h <= 6 /\ Len(l) > h /\ isspace(l[h + 1])

\* the first n items of the set S of numbers, in increasing order
RECURSIVE Sorted(_)
Sorted(S) == IF S = {} THEN <<>> ELSE <<Min(S)>> \o Sorted(S \ {Min(S)})

\* _split_by_headings: (section_text, start_char, end_char) per heading
_split_by_headings(text) ==
    LET heading_matches == Sorted({p \in LineStarts(text) : IsHeading(LineAt(text, p))})
    IN IF heading_matches = <<>>
       THEN <<[text |-> text, start |-> 0, end |-> Len(text)]>>
       ELSE [i \in DOMAIN heading_matches |->
                LET end_pos == IF i < Len(heading_matches) THEN heading_matches[i + 1]
                               ELSE Len(text)
                IN [text |-> Slice(text, heading_matches[i], end_pos),
                    start |-> heading_matches[i], end |-> end_pos]]

\* text.count('\n\n'), scanning from offset i
RECURSIVE count_paragraph_breaks(_, _)
count_paragraph_breaks(text, i) ==
    IF i + 2 > Len(text) THEN 0
    ELSE IF text[i + 1] = "nl" /\ text[i + 2] = "nl"
         THEN 1 + count_paragraph_breaks(text, i + 2)
         ELSE count_paragraph_breaks(text, i + 1)

\* _has_semantic_structure
_has_semantic_structure(text) ==
    \/ \E p \in LineStarts(text) :
          LET h == Hashes(Slice(text, p, Len(text)))
          IN h >= 1 /\ p + h < Len(text) /\ isspace(text[p + h + 1])
    \/ count_paragraph_breaks(text, 0) > 2

\* a segment (chunk_text, start_char, end_char)
Segment(chunk_text, start_char, end_char) ==
    [text |-> chunk_text, start_char |-> start_char, end_char |-> end_char]

\* the loop `while len(current_chunk) > self.chunk_size` (chunker.py:124-134);
\* with overlap_start = 0 the buffer never shrinks and the loop never ends
RECURSIVE split_oversize(_, _, _, _, _)
split_oversize(chunks, current_chunk, current_start, chunk_size, chunk_overlap) ==
    IF Len(current_chunk) <= chunk_size
    THEN [kind |-> "ok", chunks |-> chunks, current_chunk |-> current_chunk,
          current_start |-> current_start]
    ELSE LET split_point == _find_split_point(current_chunk, chunk_size)
             overlap_start == Max({0, split_point - chunk_overlap})
         IN IF overlap_start = 0
            THEN [kind |-> "hang", chunks |-> chunks, current_chunk |-> current_chunk,
                  current_start |-> current_start]
            ELSE split_oversize(
                    Append(chunks, Segment(Slice(current_chunk, 0, split_point),
                                           current_start, current_start + split_point)),
                    Slice(current_chunk, overlap_start, Len(current_chunk)),
                    current_start + overlap_start, chunk_size, chunk_overlap)

\* the loop `for section_text, section_start, section_end in sections`
\* (chunker.py:110-134), from section i on
RECURSIVE fold_sections(_, _, _, _, _)
fold_sections(sections, i, st, chunk_size, chunk_overlap) ==
    IF st.kind # "ok" \/ i > Len(sections) THEN st
    ELSE LET section_text == sections[i].text
             flush == /\ Len(st.current_chunk) + Len(section_text) > chunk_size
                      /\ st.current_chunk # <<>>
             overlap_start == Max({0, Len(st.current_chunk) - chunk_overlap})
             chunks == IF flush
                       THEN Append(st.chunks,
                                   Segment(st.current_chunk, st.current_start,
                                           st.current_start + Len(st.current_chunk)))
                       ELSE st.chunks
             current_chunk == IF flush
                              THEN Slice(st.current_chunk, overlap_start, Len(st.current_chunk))
                              ELSE st.current_chunk
             current_start == IF flush THEN st.current_start + overlap_start
                              ELSE st.current_start
         IN fold_sections(sections, i + 1,
                          split_oversize(chunks, current_chunk \o section_text,
                                         current_start, chunk_size, chunk_overlap),
                          chunk_size, chunk_overlap)

\* DocumentChunker._create_semantic_chunks
_create_semantic_chunks(text, chunk_size, chunk_overlap) ==
    LET st == fold_sections(_split_by_headings(text), 1,
                            [kind |-> "ok", chunks |-> <<>>, current_chunk |-> <<>>,
                             current_start |-> 0],
                            chunk_size, chunk_overlap)
    IN IF st.kind # "ok" THEN [kind |-> st.kind, chunks |-> <<>>]
       ELSE IF st.current_chunk # <<>>
            THEN [kind |-> "ok",
                  chunks |-> Append(st.chunks,
                                    Segment(st.current_chunk, st.current_start,
                                            st.current_start + Len(st.current_chunk)))]
            ELSE [kind |-> "ok", chunks |-> st.chunks]

\* the loop of _create_simple_chunks from offset i on
RECURSIVE simple_from(_, _, _, _)
simple_from(text, i, chunk_size, step) ==
    IF i >= Len(text) THEN <<>>
    ELSE LET end == Min({i + chunk_size, Len(text)})
         IN <<Segment(Slice(text, i, end), i, end)>>
            \o (IF end >= Len(text) THEN <<>> ELSE simple_from(text, i + step, chunk_size, step))

\* DocumentChunker._create_simple_chunks; range() raises on a zero step and
\* is empty on a negative one
_create_simple_chunks(text, chunk_size, chunk_overlap) ==
    IF chunk_size - chunk_overlap = 0 THEN [kind |-> "raise", chunks |-> <<>>]
    ELSE IF chunk_size - chunk_overlap < 0 THEN [kind |-> "ok", chunks |-> <<>>]
    ELSE [kind |-> "ok",
          chunks |-> simple_from(text, 0, chunk_size, chunk_size - chunk_overlap)]

\* DocumentChunk.validate_text
validate_text(v) == v # <<>> /\ \E i \in DOMAIN v : ~isspace(v[i])

\* DocumentChunker._create_chunks: the chunks, or the way the call fails
_create_chunks(text, chunk_size, chunk_overlap) ==
    IF text = <<>> THEN [kind |-> "ok", path |-> "empty", chunks |-> <<>>]
    ELSE LET semantic == _has_semantic_structure(text)
             segs == IF semantic THEN _create_semantic_chunks(text, chunk_size, chunk_overlap)
                     ELSE _create_simple_chunks(text, chunk_size, chunk_overlap)
             path == IF semantic THEN "semantic" ELSE "simple"
         IN IF segs.kind # "ok" THEN [kind |-> segs.kind, path |-> path, chunks |-> <<>>]
            ELSE IF \E i \in DOMAIN segs.chunks : ~validate_text(segs.chunks[i].text)
                 THEN [kind |-> "raise", path |-> path, chunks |-> <<>>]
            ELSE [kind |-> "ok", path |-> path,
                  chunks |-> [i \in DOMAIN segs.chunks |->
                                 [text |-> segs.chunks[i].text, index |-> i - 1,
                                  start_char |-> segs.chunks[i].start_char,
                                  end_char |-> segs.chunks[i].end_char]]]

\* DocumentChunker.chunk_document on the document at hand
ChunkDocument ==
    /\ chk_out = Idle
    /\ chk_out' = [op |-> "chunk_document"]
                  @@ _create_chunks(chk_in.text, chk_in.chunk_size, chk_in.chunk_overlap)
    /\ UNCHANGED <<chk_in, hybVars, svcVars, apiVars, dbVars, embVars, ingVars, cliVars, otherVars>>

(***************************************************************************)
(* Document models (models/document.py)                                    *)
(***************************************************************************)
\* a constructor that accepts any source
DocumentMetadata_new_unvalidated(source, source_type) ==
    [kind |-> "ok",
     obj |-> [source |-> source,
              source_type |-> IF source_type = "absent" THEN "file" ELSE source_type]]

\* DocumentMetadata(source=..., [source_type=...]): validate_source, and the
\* default of source_type; "absent" = the argument is not given
DocumentMetadata_new(source, source_type) ==
    IF source = ""
    THEN [kind |-> "raise", err |-> "ValidationError"]
    ELSE [kind |-> "ok",
          obj |-> [source |-> source,
                   source_type |-> IF source_type = "absent" THEN "file" ELSE source_type]]

\* Document(text=..., metadata=...): the metadata argument is a
\* DocumentMetadata or a dict that is validated into one; validate_text
\* rejects a text that is empty or all whitespace
Document_new(text, metadata) ==
    LET m == IF metadata.type = "dict"
             THEN DocumentMetadata_new(metadata.source, metadata.source_type)
             ELSE [kind |-> "ok", obj |-> metadata.obj]
    IN IF m.kind = "raise" \/ text = <<>> \/ \A i \in DOMAIN text : isspace(text[i])
       THEN [kind |-> "raise", err |-> "ValidationError"]
       ELSE [kind |-> "ok", obj |-> [text |-> text, metadata |-> m.obj, chunks |-> <<>>]]

\* DocumentMetadata(...) somewhere in the program
DocumentMetadataNew ==
    /\ \E source \in {"", " ", "test.md"}, source_type \in {"absent", "file", "url"} :
          doc_last' = [op |-> "DocumentMetadata", source |-> source,
                       source_type |-> source_type,
                       out |-> DocumentMetadata_new(source, source_type)]
    /\ UNCHANGED <<hybVars, svcVars, apiVars, dbVars, chunkVars, embVars, ingVars, cliVars,
                   req_work, kg_last, bot_last>>

\* Document(...) with the metadata last constructed, or with a dict
DocumentNew ==
    /\ \E text \in SeqsUpTo({"#", " ", "nl", "."}, MaxText) :
       \E metadata \in
             {[type |-> "dict", source |-> src, source_type |-> "absent"] :
                 src \in {"", "test.md"}}
             \cup (IF doc_last # Idle /\ doc_last.op = "DocumentMetadata"
                      /\ doc_last.out.kind = "ok"
                   THEN {[type |-> "object", obj |-> doc_last.out.obj]} ELSE {}) :
          doc_last' = [op |-> "Document", text |-> text, metadata |-> metadata,
                       out |-> Document_new(text, metadata)]
    /\ UNCHANGED <<hybVars, svcVars, apiVars, dbVars, chunkVars, embVars, ingVars, cliVars,
                   req_work, kg_last, bot_last>>

\* the loop `for chunk in document.chunks` of store_document_embeddings
\* (embedder.py:213-265), from the chunk at position i on.  The chunk query
\* creates the node, then matches the document node under the configured
\* label (the document node itself was created with the label Document,
\* embedder.py:173): without a match the node stays, no relationship is
\* created and no row comes back, so the loop logs and continues.
\* previous_chunk_id = 0 stands for None
RECURSIVE store_chunks(_, _, _, _, _)
store_chunks(i, n, previous_chunk_id, g, env) ==
    IF i > n THEN [ret |-> "success"] @@ g
    ELSE IF env.raise_at = i THEN [ret |-> "raise"] @@ g
    ELSE IF env.document_label # "Document"
    THEN store_chunks(i + 1, n, previous_chunk_id,
                      [g EXCEPT !.chunks = @ \cup {i}], env)
    ELSE store_chunks(i + 1, n, i,
                      [chunks |-> g.chunks \cup {i},
                       part_of |-> g.part_of \cup {i},
                       next |-> IF previous_chunk_id # 0
                                THEN g.next \cup {<<previous_chunk_id, i>>} ELSE g.next,
                       chunks_created |-> g.chunks_created + 1], env)

\* ChunkEmbedder.store_document_embeddings for a document of n chunks: what
\* it returns ("raise" = a QueryError leaves it) and what it has written
store_document_embeddings(n, env) ==
    LET nothing == [chunks |-> {}, part_of |-> {}, next |-> {}, chunks_created |-> 0]
    IN IF ~env.ensure_ok THEN [ret |-> "error", document |-> FALSE] @@ nothing
       ELSE IF env.document = "raise" THEN [ret |-> "raise", document |-> FALSE] @@ nothing
       ELSE [document |-> TRUE] @@ store_chunks(1, n, 0, nothing, env)

\* the document constructed last is chunked, embedded and stored
StoreDocument ==
    /\ doc_last # Idle
    /\ doc_last.op = "Document"
    /\ doc_last.out.kind = "ok"
    /\ \E n \in 0..MaxStored :
       \E env \in [ensure_ok : BOOLEAN, document : {"row", "raise"},
                   document_label : {"Document", "Doc"}, raise_at : 0..n] :
          doc_last' = [op |-> "store", n |-> n, env |-> env,
                       out |-> store_document_embeddings(n, env)]
    /\ UNCHANGED <<hybVars, svcVars, apiVars, dbVars, chunkVars, embVars, ingVars, cliVars,
                   req_work, kg_last, bot_last>>

(***************************************************************************)
(* EnhancedKGRetriever (retrieval/enhanced_kg.py)                          *)
(***************************************************************************)
\* The model's reply is a list of tokens: "fence" (the three backquotes of a
\* code fence), "cyphe" (five characters) and "r" (one), which together
\* spell the opening fence of a cypher block; the line break "nl"; the
\* clause keyword in two letter cases; "UNKNOWN".

\* EnhancedKGRetriever._clean_and_validate_cypher
_clean_and_validate_cypher(cypher) ==
    IF cypher = <<>> \/ cypher = <<"UNKNOWN">> THEN <<"UNKNOWN">>
    ELSE LET unprefixed == IF Head(cypher) = "r" /\ Len(cypher) > 1
                           THEN strip(Tail(cypher)) ELSE cypher
         IN IF unprefixed # <<>> /\ Head(unprefixed) \in {"MATCH", "match"}
            THEN unprefixed
            ELSE <<"UNKNOWN">>

\* EnhancedKGRetriever._build_fallback_query with the default fallback
\* queries; the question is given by the kind of keywords it has
_build_fallback_query(query) ==
    CASE query = "no keywords" -> <<"fallback", "default">>
      [] query = "role keyword" -> <<"fallback", "roles">>
      [] OTHER -> <<"fallback", "contains", query>>

\* EnhancedKGRetriever._generate_cypher, from the model call on
_generate_cypher(query, llm) ==
    IF llm.kind = "raise" THEN _build_fallback_query(query)
    ELSE LET content == strip(llm.content)
             \* cypher[8:] when the reply starts with the nine characters of
             \* the opening fence
             unfenced == IF Len(content) >= 3 /\ SubSeq(content, 1, 3) = <<"fence", "cyphe", "r">>
                         THEN SubSeq(content, 3, Len(content)) ELSE content
             opened == IF unfenced # <<>> /\ Head(unfenced) = "fence"
                       THEN Tail(unfenced) ELSE unfenced
             closed == IF opened # <<>> /\ opened[Len(opened)] = "fence"
                       THEN SubSeq(opened, 1, Len(opened) - 1) ELSE opened
         IN _clean_and_validate_cypher(strip(closed))

\* EnhancedKGRetriever.retrieve: the statement generated and the statement
\* handed to _execute_cypher (<<>> when none is)
EnhancedKGRetriever_retrieve(query, llm) ==
    LET cypher == _generate_cypher(query, llm)
    IN [op |-> "retrieve", query |-> query, llm |-> llm, cypher |-> cypher,
        executed |-> IF cypher = <<>> \/ strip(cypher) = <<"UNKNOWN">> THEN <<>> ELSE cypher]

KgRetrieve ==
    /\ kg_last = Idle
    /\ \E query \in {"no keywords", "role keyword", "invoice"} :
       \E llm \in [kind : {"ok"},
                   content : SeqsUpTo({"fence", "cyphe", "r", "nl", "MATCH", "match",
                                       "UNKNOWN"}, MaxTokens)]
                  \cup [kind : {"raise"}, err : {"e1"}] :
          kg_last' = EnhancedKGRetriever_retrieve(query, llm)
    /\ UNCHANGED <<hybVars, svcVars, apiVars, dbVars, chunkVars, embVars, ingVars, cliVars,
                   req_work, doc_last, bot_last>>

\* the caller takes the outcome
KgReturn ==
    /\ kg_last # Idle
    /\ kg_last' = Idle
    /\ UNCHANGED <<hybVars, svcVars, apiVars, dbVars, chunkVars, embVars, ingVars, cliVars,
                   req_work, doc_last, bot_last>>

(***************************************************************************)
(* Chat bot (api/slack_bot.py)                                             *)
(***************************************************************************)
\* An answer is a list of sentences.  An event carries its own timestamp ts
\* and, inside a thread, the thread's timestamp thread_ts (0 when the key is
\* absent).  A posted message records the call that posted it, the
\* thread_ts argument it was given (0 when none was) and its content.

\* the API's reply as query_graphqna returns it: the answer document, or
\* the error dictionary, which has no "answer" key
BotResponses ==
    [kind : {"answer"},
     answer : SeqsUpTo({"Paris.", "I don't have enough information",
                        "I DON'T HAVE ENOUGH INFORMATION", "I couldn't find information",
                        "No relevant information", "not enough context"}, MaxAnswer)]
    \cup [kind : {"error"}, answer : {<<>>}]

\* format_slack_message: the error blocks or the answer blocks
format_slack_message(response) ==
    IF response.kind = "error" THEN [kind |-> "error blocks", answer |-> <<>>]
    ELSE [kind |-> "answer blocks", answer |-> response.answer]

\* has_good_answer in handle_channel_message, of response.get("answer", "")
has_good_answer_unchecked(answer) == TRUE

has_good_answer(answer) ==
    ~ \E phrase \in {"I don't have enough information", "I couldn't find information",
                     "no relevant information", "not enough context"} :
         \E i \in DOMAIN answer : StrLower(phrase) = StrLower(answer[i])

\* handle_app_mention: the messages posted; env.posts tells for each
\* chat_postMessage call in turn whether it goes through
handle_app_mention(event, response, env) ==
    IF event.text = "blank"
    THEN IF env.posts[1] = "ok"
         THEN <<[via |-> "chat_postMessage",
                 thread_ts |-> IF event.thread_ts # 0 THEN event.thread_ts ELSE event.ts,
                 body |-> [kind |-> "prompt", answer |-> <<>>]]>>
         ELSE <<[via |-> "say", thread_ts |-> 0, body |-> [kind |-> "prompt", answer |-> <<>>]]>>
    ELSE LET reply_ts == IF event.thread_ts # 0 THEN event.thread_ts ELSE event.ts
             post(i, body) == IF env.posts[i] = "ok"
                              THEN [via |-> "chat_postMessage", thread_ts |-> reply_ts, body |-> body]
                              ELSE [via |-> "say", thread_ts |-> 0, body |-> body]
         IN <<post(1, [kind |-> "thinking", answer |-> <<>>]),
              post(2, format_slack_message(response))>>

\* handle_direct_message
handle_direct_message(event, response) ==
    IF event.text = "blank"
    THEN <<[via |-> "say", thread_ts |-> 0, body |-> [kind |-> "prompt", answer |-> <<>>]]>>
    ELSE <<[via |-> "say", thread_ts |-> 0, body |-> [kind |-> "thinking", answer |-> <<>>]],
           [via |-> "say", thread_ts |-> 0, body |-> format_slack_message(response)]>>

\* handle_channel_message with the default channel lists; env.info tells
\* whether conversations_info goes through
handle_channel_message(event, response, env) ==
    LET channel_name_lower == event.channel
        is_always_respond == channel_name_lower \in {"ask_vivun"}
        answer == IF response.kind = "answer" THEN response.answer ELSE <<>>
        reply_ts == IF event.thread_ts # 0 THEN event.thread_ts ELSE event.ts
        disclaimed == IF response.kind = "answer" /\ ~has_good_answer(answer) /\ is_always_respond
                      THEN [response EXCEPT !.answer =
                               <<"I'm not entirely sure about this, but here's what I found:">>
                               \o answer]
                      ELSE response
    IN CASE event.thread_ts # 0 /\ event.thread_ts # event.ts -> <<>>
         [] env.info = "raise" -> <<>>
         [] channel_name_lower \notin {"general", "ask_vivun"} -> <<>>
         [] event.text = "blank" -> <<>>
         [] ~has_good_answer(answer) /\ ~is_always_respond -> <<>>
         [] env.posts[1] = "ok" ->
              <<[via |-> "chat_postMessage", thread_ts |-> reply_ts,
                 body |-> format_slack_message(disclaimed)]>>
         [] env.posts[2] = "ok" ->
              <<[via |-> "chat_postMessage", thread_ts |-> reply_ts,
                 body |-> [kind |-> "plain",
                           answer |-> IF disclaimed.kind = "answer" THEN disclaimed.answer
                                      ELSE <<"No answer available">>]]>>
         [] OTHER -> <<>>

\* handle_all_messages: the routing of message events
handle_all_messages(event, response, env) ==
    CASE event.skip # "none" -> <<>>
      [] event.channel_type = "im" -> handle_direct_message(event, response)
      [] event.channel_type \in {"channel", "group"} -> handle_channel_message(event, response, env)
      [] OTHER -> <<>>

\* an app_mention event is delivered
BotAppMention ==
    /\ bot_last = Idle
    /\ \E response \in BotResponses :
       \E event \in [text : {"blank", "question"}, ts : {2}, thread_ts : {0, 1, 2},
                    channel : {"general", "ask_vivun", "random", "lobby"},
                    channel_type : {"im", "channel", "mpim"},
                    skip : {"none", "bot_id", "message_changed"}] :
       \E env \in [info : {"ok", "raise"}, posts : [1..2 -> {"ok", "raise"}]] :
          bot_last' = [handler |-> "app_mention", event |-> event, response |-> response,
                       env |-> env, posted |-> handle_app_mention(event, response, env)]
    /\ UNCHANGED <<hybVars, svcVars, apiVars, dbVars, chunkVars, embVars, ingVars, cliVars,
                   req_work, doc_last, kg_last>>

\* a message event is delivered
BotMessage ==
    /\ bot_last = Idle
    /\ \E response \in BotResponses :
       \E event \in [text : {"blank", "question"}, ts : {2}, thread_ts : {0, 1, 2},
                    channel : {"general", "ask_vivun", "random", "lobby"},
                    channel_type : {"im", "channel", "mpim"},
                    skip : {"none", "bot_id", "message_changed"}] :
       \E env \in [info : {"ok", "raise"}, posts : [1..2 -> {"ok", "raise"}]] :
          bot_last' = [handler |-> "message", event |-> event, response |-> response,
                       env |-> env, posted |-> handle_all_messages(event, response, env)]
    /\ UNCHANGED <<hybVars, svcVars, apiVars, dbVars, chunkVars, embVars, ingVars, cliVars,
                   req_work, doc_last, kg_last>>

\* the handler returns
BotReturn ==
    /\ bot_last # Idle
    /\ bot_last' = Idle
    /\ UNCHANGED <<hybVars, svcVars, apiVars, dbVars, chunkVars, embVars, ingVars, cliVars,
                   req_work, doc_last, kg_last>>

(***************************************************************************)
(* Embedding dimension normalization (retrieval/base.py, ingest/embedder.py,*)
(* retrieval/vector.py)                                                    *)
(***************************************************************************)
\* components of a raw embedding; 0 is the value used for padding

\* [0.0] * n
Zeros(n) == [i \in 1..n |-> 0]

\* BaseRetriever.embed_query, from the raw embedding on
BaseRetriever_embed_query(embedding, expected_dimensions) ==
    LET current_dimensions == Len(embedding)
    IN IF current_dimensions > expected_dimensions
       THEN SubSeq(embedding, 1, expected_dimensions)
       ELSE IF current_dimensions < expected_dimensions
            THEN embedding \o Zeros(expected_dimensions - current_dimensions)
            ELSE embedding

\* an embedder that cuts long embeddings and leaves short ones as they are
ChunkEmbedder_embed_query_no_padding(embedding, expected_dimensions) ==
    IF Len(embedding) > expected_dimensions
    THEN SubSeq(embedding, 1, expected_dimensions)
    ELSE embedding

\* ChunkEmbedder.embed_query, from the raw embedding on
ChunkEmbedder_embed_query(embedding, expected_dimensions) ==
    LET current_dimensions == Len(embedding)
    IN IF current_dimensions > expected_dimensions
       THEN SubSeq(embedding, 1, expected_dimensions)
       ELSE IF current_dimensions < expected_dimensions
            THEN embedding \o Zeros(expected_dimensions - current_dimensions)
            ELSE embedding

\* CustomVectorRetriever._get_embeddings with a query_vector
_get_embeddings(query_vector, index_dimensions) ==
    LET current_dims == Len(query_vector)
    IN IF current_dims > index_dimensions
       THEN SubSeq(query_vector, 1, index_dimensions)
       ELSE IF current_dims < index_dimensions
            THEN LET padded == query_vector
                 IN padded \o Zeros(index_dimensions - current_dims)
            ELSE query_vector

\* a retriever embeds a query
BaseEmbedQuery ==
    /\ emb_out = Idle
    /\ emb_out' = [op |-> "BaseRetriever.embed_query",
                   ret |-> BaseRetriever_embed_query(emb_in.embedding, emb_in.dimensions)]
    /\ UNCHANGED <<emb_in, hybVars, svcVars, apiVars, dbVars, chunkVars, ingVars, cliVars, otherVars>>

\* the chunk embedder embeds a query
EmbedderEmbedQuery ==
    /\ emb_out = Idle
    /\ emb_out' = [op |-> "ChunkEmbedder.embed_query",
                   ret |-> ChunkEmbedder_embed_query(emb_in.embedding, emb_in.dimensions)]
    /\ UNCHANGED <<emb_in, hybVars, svcVars, apiVars, dbVars, chunkVars, ingVars, cliVars, otherVars>>

\* the vector search receives a query vector
CustomGetEmbeddings ==
    /\ emb_out = Idle
    /\ emb_out' = [op |-> "CustomVectorRetriever._get_embeddings",
                   ret |-> _get_embeddings(emb_in.embedding, emb_in.dimensions)]
    /\ UNCHANGED <<emb_in, hybVars, svcVars, apiVars, dbVars, chunkVars, ingVars, cliVars, otherVars>>

(***************************************************************************)
(* IngestionPipeline (ingest/pipeline.py)                                  *)
(***************************************************************************)
\* the documents handed to one pipeline instance, each by its own
\* ingest_document coroutine (cli/commands/ingest.py:225-235)
Docs == {"d1", "d2"}

\* a coroutine that has not started
NewTask ==
    [pc |-> "new", advanced_kg |-> FALSE, chunks |-> 0, stages |-> <<>>,
     result |-> [kind |-> "none", status |-> "none", message |-> "absent",
                 has_time_taken |-> FALSE, time_taken |-> 0]]

\* a dict returned by ingest_document before "time_taken" is added
Result(status, message) ==
    [kind |-> "return", status |-> status, message |-> message,
     has_time_taken |-> FALSE, time_taken |-> 0]

\* result["time_taken"] = time.time() - start_time
with_time_taken(result, elapsed) ==
    [result EXCEPT !.has_time_taken = TRUE, !.time_taken = elapsed]

\* an exception leaves ingest_document
Escapes ==
    [kind |-> "raise", status |-> "none", message |-> "absent",
     has_time_taken |-> FALSE, time_taken |-> 0]

\* ingest_document up to `await task` in embed_document_async: file check,
\* clear, Document.from_file, chunk_document (pipeline.py:102-176)
ingest_start(task, clear_database, advanced_kg, fail, chunks, elapsed) ==
    LET before == IF clear_database THEN <<"file check", "clear">> ELSE <<"file check">>
    IN IF fail = "file check"
       THEN [task EXCEPT !.pc = "done", !.stages = <<"file check">>,
                         !.result = with_time_taken(Result("error", "File not found"), elapsed)]
       ELSE IF fail = "clear" /\ clear_database
       THEN [task EXCEPT !.pc = "done", !.stages = before,
                         !.result = with_time_taken(Result("error", "Failed to clear database"),
                                                    elapsed)]
       ELSE IF fail = "load"
       THEN [task EXCEPT !.pc = "done", !.stages = before \o <<"load">>,
                         !.result = with_time_taken(Result("error", "Failed to load document"),
                                                    elapsed)]
       ELSE IF fail = "chunking"
       THEN [task EXCEPT !.pc = "done", !.stages = before \o <<"load", "chunking">>,
                         !.result = Escapes]
       ELSE [task EXCEPT !.pc = "embedding", !.advanced_kg = advanced_kg, !.chunks = chunks,
                         !.stages = before \o <<"load", "chunking", "embedding">>]

\* KnowledgeGraphBuilder.detect_schema: the schema of the sampled document,
\* or the fallback schema when the detection fails (kg_builder.py:145-148)
detect_schema(doc, ok) == IF ok THEN doc ELSE "fallback"

\* `if self.detected_schema is None: self.detected_schema = detect_schema(...)`
\* (pipeline.py:239-243)
schema_for(detected_schema, doc, ok) ==
    IF detected_schema = "None"
    THEN [schema |-> detect_schema(doc, ok), detected |-> TRUE]
    ELSE [schema |-> detected_schema, detected |-> FALSE]

\* from the end of the embedding to `await kg_builder.run_async`:
\* store_document_embeddings, schema detection and the chunk loop
\* (pipeline.py:176-192, 230-291)
ingest_embedded(task, detected_schema, doc, fail, detect_ok, elapsed) ==
    LET sch == schema_for(detected_schema, doc, detect_ok)
        events == (IF sch.detected
                   THEN <<[kind |-> "detect", doc |-> doc, chunk |-> 0, schema |-> sch.schema]>>
                   ELSE <<>>)
                  \* the chunk loop (pipeline.py:250-257)
                  \o [i \in 1..(IF fail = "import" THEN 1 ELSE task.chunks) |->
                         [kind |-> "extract", doc |-> doc, chunk |-> i, schema |-> sch.schema]]
        same == [task |-> task, detected_schema |-> detected_schema, events |-> <<>>]
    IN IF fail = "embedding"
       THEN [same EXCEPT !.task.pc = "done", !.task.result = Escapes]
       ELSE IF fail = "storage"
       THEN [same EXCEPT !.task.pc = "done", !.task.stages = Append(@, "storage"),
                         !.task.result = Escapes]
       ELSE IF fail = "storage error"
       THEN [same EXCEPT !.task.pc = "done", !.task.stages = Append(@, "storage"),
                         !.task.result =
                             with_time_taken(Result("error", "Failed to store document embeddings"),
                                             elapsed)]
       ELSE IF ~task.advanced_kg
       THEN [same EXCEPT !.task.pc = "legacy",
                         !.task.stages = @ \o <<"storage", "knowledge graph">>]
       ELSE IF fail = "import"
       THEN [task |-> [task EXCEPT !.pc = "done",
                                   !.stages = @ \o <<"storage", "knowledge graph">>,
                                   !.result =
                                       with_time_taken(Result("error", "Failed to build knowledge graph"),
                                                       elapsed)],
             detected_schema |-> sch.schema, events |-> events]
       ELSE [task |-> [task EXCEPT !.pc = "legacy",
                                   !.stages = @ \o <<"storage", "knowledge graph">>],
             detected_schema |-> sch.schema, events |-> events]

\* from the end of the legacy extraction to the return (pipeline.py:291-300,
\* 192-213, 147-149)
ingest_finish(task, legacy_ok, elapsed) ==
    IF legacy_ok
    THEN [task EXCEPT !.pc = "done",
                      !.result = with_time_taken(Result("success", "absent"), elapsed)]
    ELSE [task EXCEPT !.pc = "done",
                      !.result = with_time_taken(Result("error", "Failed to build knowledge graph"),
                                                 elapsed)]

\* a coroutine starts and runs to its first suspension
IngestStart ==
    \E doc \in Docs, clear_database, advanced_kg \in BOOLEAN, fail \in {"none", "file check", "clear", "load", "chunking"},
       chunks \in 1..MaxChunks, elapsed \in 0..MaxElapsed :
       /\ ing_task[doc].pc = "new"
       /\ fail = "clear" => clear_database
       /\ ing_task' = [ing_task EXCEPT
                          ![doc] = ingest_start(@, clear_database, advanced_kg, fail,
                                                chunks, elapsed)]
       /\ UNCHANGED <<ing_schema, ing_log, hybVars, svcVars, apiVars, dbVars, chunkVars, embVars, cliVars, otherVars>>

\* a coroutine resumes after the embedding; `fail` is the stage that fails
\* before the next suspension, if any: "storage error" is an error dict from
\* store_document_embeddings, "storage" an exception from it
IngestEmbedded ==
    \E doc \in Docs, detect_ok \in BOOLEAN, elapsed \in 0..MaxElapsed,
       fail \in {"none", "embedding", "storage", "storage error", "import"} :
       /\ ing_task[doc].pc = "embedding"
       /\ fail = "import" => ing_task[doc].advanced_kg
       /\ LET r == ingest_embedded(ing_task[doc], ing_schema, doc, fail, detect_ok, elapsed)
          IN /\ ing_task' = [ing_task EXCEPT ![doc] = r.task]
             /\ ing_schema' = r.detected_schema
             /\ ing_log' = ing_log \o r.events
       /\ UNCHANGED <<hybVars, svcVars, apiVars, dbVars, chunkVars, embVars, cliVars, otherVars>>

\* a coroutine resumes after the legacy extraction and returns
IngestFinish ==
    \E doc \in Docs, legacy_ok \in BOOLEAN, elapsed \in 0..MaxElapsed :
       /\ ing_task[doc].pc = "legacy"
       /\ ing_task' = [ing_task EXCEPT ![doc] = ingest_finish(@, legacy_ok, elapsed)]
       /\ UNCHANGED <<ing_schema, ing_log, hybVars, svcVars, apiVars, dbVars, chunkVars, embVars, cliVars, otherVars>>

(***************************************************************************)
(* Command-line tool (cli/commands/db.py, cli/commands/ingest.py)          *)
(***************************************************************************)
\* outcomes of Neo4jDatabase.clear_database: it deletes and returns, raises
\* before the DETACH DELETE ran, or raises after it

\* Neo4jDatabase.clear_database on a database holding `data`
clear_database(data, outcome) ==
    IF outcome = "raise before delete"
    THEN [data |-> data, deleted |-> FALSE, raised |-> TRUE]
    ELSE [data |-> "empty", deleted |-> TRUE, raised |-> (outcome = "raise after delete")]

\* `if not args.force: confirm = input(...); if confirm.lower() != "y": return 0`
\* (db.py:76-80, 119-123)
confirmed(force, answer) ==
    LET lower == CASE answer = "Y" -> "y"
                   [] answer = "N" -> "n"
                   [] OTHER -> answer
    IN force \/ lower = "y"

\* cli/commands/db.py execute: the exit code and what became of the
\* database and of the vector index
db_execute(run, data, index) ==
    LET base == [cmd |-> "db", action |-> run.action, force |-> run.force,
                 asked |-> FALSE, answer |-> run.answer, deleted |-> FALSE,
                 dropped |-> FALSE, exit_code |-> 0, data |-> data, index |-> index]
        asked == [base EXCEPT !.asked = (run.action # "stats" /\ ~run.force)]
    IN IF run.action = "clear"
       THEN IF ~confirmed(run.force, run.answer) THEN asked
            ELSE LET c == clear_database(data, run.clear)
                 IN [asked EXCEPT !.deleted = c.deleted, !.data = c.data,
                                  !.exit_code = IF c.raised THEN 1 ELSE 0]
       ELSE IF run.action = "stats" THEN asked
       ELSE IF ~confirmed(run.force, run.answer) THEN asked
            ELSE IF ~run.drop_ok THEN [asked EXCEPT !.exit_code = 1]
            ELSE IF run.ensure_ok THEN [asked EXCEPT !.dropped = TRUE, !.index = "present"]
            ELSE [asked EXCEPT !.dropped = TRUE, !.index = "absent", !.exit_code = 1]

\* cli/commands/ingest.py execute; the command has no --force flag and
\* asks nothing
ingest_execute(run, data, index) ==
    LET base == [cmd |-> "ingest", action |-> IF run.clear THEN "clear" ELSE "append",
                 force |-> FALSE, asked |-> FALSE, answer |-> "", deleted |-> FALSE,
                 dropped |-> FALSE, exit_code |-> 0, data |-> data, index |-> index]
        c == clear_database(data, run.clear_outcome)
        cleared == IF run.clear THEN [base EXCEPT !.deleted = c.deleted, !.data = c.data]
                   ELSE base
    IN IF ~run.files THEN [base EXCEPT !.exit_code = 1]
       ELSE IF run.clear /\ c.raised THEN [cleared EXCEPT !.exit_code = 1]
       ELSE IF run.ingested THEN [cleared EXCEPT !.data = "data", !.index = "present"]
       ELSE [cleared EXCEPT !.exit_code = 1]

\* the user runs `graphqna db ...`
CliDb ==
    /\ cli_last = Idle
    /\ \E run \in ([action : {"clear", "stats", "reset_vector_index"}, force : BOOLEAN, answer : {"y", "Y", "n", "N", "", "yes"}, clear : ({"ok", "raise before delete", "raise after delete"}), drop_ok : BOOLEAN, ensure_ok : BOOLEAN]) :
          LET r == db_execute(run, cli_data, cli_index)
          IN /\ cli_data' = r.data
             /\ cli_index' = r.index
             /\ cli_last' = [op |-> "run"] @@ r
    /\ UNCHANGED <<hybVars, svcVars, apiVars, dbVars, chunkVars, embVars, ingVars, otherVars>>

\* the user runs `graphqna ingest ...`
CliIngest ==
    /\ cli_last = Idle
    /\ \E run \in ([clear : BOOLEAN, files : BOOLEAN, clear_outcome : ({"ok", "raise before delete", "raise after delete"}), ingested : BOOLEAN]) :
          LET r == ingest_execute(run, cli_data, cli_index)
          IN /\ cli_data' = r.data
             /\ cli_index' = r.index
             /\ cli_last' = [op |-> "run"] @@ r
    /\ UNCHANGED <<hybVars, svcVars, apiVars, dbVars, chunkVars, embVars, ingVars, otherVars>>

\* the command exits
CliExit ==
    /\ cli_last # Idle
    /\ cli_last' = Idle
    /\ UNCHANGED <<cli_data, cli_index, hybVars, svcVars, apiVars, dbVars, chunkVars, embVars, ingVars, otherVars>>

(***************************************************************************)
(* Specifications                                                          *)
(***************************************************************************)
\* a component that is not exercised stays as constructed with defaults
InitHybrid ==
    /\ hyb_impl \in [Methods -> {"concrete", "injected"}]
    /\ hyb = Idle
    /\ svc_cache = [m \in RetrievalMethod |-> 0]
    /\ svc_next_id = 1
    /\ svc_subs = NoSubs
    /\ svc_last = Idle
    /\ requests = <<>>
    /\ now = 0
    /\ admitted = [k \in LimiterKeys |-> <<>>]
    /\ api_cfg = NoAttribute
    /\ api_last = Idle
    /\ db_cls = NoInstance
    /\ db_next_id = 1
    /\ db_graph = EmptyGraph
    /\ db_last = Idle
    /\ chk_in = NoDocument
    /\ chk_out = Idle
    /\ emb_in = NoEmbedding
    /\ emb_out = Idle
    /\ ing_schema = "None"
    /\ ing_task = [doc \in Docs |-> NewTask]
    /\ ing_log = <<>>
    /\ cli_data = "data"
    /\ cli_index = "present"
    /\ cli_last = Idle
    /\ req_work = [u \in 1..MaxRequests |-> ([pc |-> "new", closed_under |-> FALSE])]
    /\ doc_last = Idle
    /\ kg_last = Idle
    /\ bot_last = Idle

InitService ==
    /\ hyb_impl = [m \in Methods |-> "concrete"]
    /\ hyb = Idle
    /\ svc_cache = [m \in RetrievalMethod |-> 0]
    /\ svc_next_id = 1
    /\ svc_subs = NoSubs
    /\ svc_last = Idle
    /\ requests = <<>>
    /\ now = 0
    /\ admitted = [k \in LimiterKeys |-> <<>>]
    /\ api_cfg = NoAttribute
    /\ api_last = Idle
    /\ db_cls = NoInstance
    /\ db_next_id = 1
    /\ db_graph = EmptyGraph
    /\ db_last = Idle
    /\ chk_in = NoDocument
    /\ chk_out = Idle
    /\ emb_in = NoEmbedding
    /\ emb_out = Idle
    /\ ing_schema = "None"
    /\ ing_task = [doc \in Docs |-> NewTask]
    /\ ing_log = <<>>
    /\ cli_data = "data"
    /\ cli_index = "present"
    /\ cli_last = Idle
    /\ req_work = [u \in 1..MaxRequests |-> ([pc |-> "new", closed_under |-> FALSE])]
    /\ doc_last = Idle
    /\ kg_last = Idle
    /\ bot_last = Idle

InitApi ==
    /\ hyb_impl = [m \in Methods |-> "concrete"]
    /\ hyb = Idle
    /\ svc_cache = [m \in RetrievalMethod |-> 0]
    /\ svc_next_id = 1
    /\ svc_subs = NoSubs
    /\ svc_last = Idle
    /\ requests = <<>>
    /\ now = 0
    /\ admitted = [k \in LimiterKeys |-> <<>>]
    /\ api_cfg \in ({NoAttribute} \cup ({"", "abc", "Abc"}))
    /\ api_last = Idle
    /\ db_cls = NoInstance
    /\ db_next_id = 1
    /\ db_graph = EmptyGraph
    /\ db_last = Idle
    /\ chk_in = NoDocument
    /\ chk_out = Idle
    /\ emb_in = NoEmbedding
    /\ emb_out = Idle
    /\ ing_schema = "None"
    /\ ing_task = [doc \in Docs |-> NewTask]
    /\ ing_log = <<>>
    /\ cli_data = "data"
    /\ cli_index = "present"
    /\ cli_last = Idle
    /\ req_work = [u \in 1..MaxRequests |-> ([pc |-> "new", closed_under |-> FALSE])]
    /\ doc_last = Idle
    /\ kg_last = Idle
    /\ bot_last = Idle

InitDb ==
    /\ hyb_impl = [m \in Methods |-> "concrete"]
    /\ hyb = Idle
    /\ svc_cache = [m \in RetrievalMethod |-> 0]
    /\ svc_next_id = 1
    /\ svc_subs = NoSubs
    /\ svc_last = Idle
    /\ requests = <<>>
    /\ now = 0
    /\ admitted = [k \in LimiterKeys |-> <<>>]
    /\ api_cfg = NoAttribute
    /\ api_last = Idle
    /\ db_cls = NoInstance
    /\ db_next_id = 1
    /\ db_graph \in (LET Nodes == [labels : SUBSET Range(Labels), long_embedding : BOOLEAN] IN {g \in [nodes : SeqsUpTo(Nodes, MaxNodes), rels : SeqsUpTo(Range(RelTypes), MaxRels)] : g.nodes = <<>> => g.rels = <<>>})
    /\ db_last = Idle
    /\ chk_in = NoDocument
    /\ chk_out = Idle
    /\ emb_in = NoEmbedding
    /\ emb_out = Idle
    /\ ing_schema = "None"
    /\ ing_task = [doc \in Docs |-> NewTask]
    /\ ing_log = <<>>
    /\ cli_data = "data"
    /\ cli_index = "present"
    /\ cli_last = Idle
    /\ req_work = [u \in 1..MaxRequests |-> ([pc |-> "new", closed_under |-> FALSE])]
    /\ doc_last = Idle
    /\ kg_last = Idle
    /\ bot_last = Idle

InitChunker ==
    /\ hyb_impl = [m \in Methods |-> "concrete"]
    /\ hyb = Idle
    /\ svc_cache = [m \in RetrievalMethod |-> 0]
    /\ svc_next_id = 1
    /\ svc_subs = NoSubs
    /\ svc_last = Idle
    /\ requests = <<>>
    /\ now = 0
    /\ admitted = [k \in LimiterKeys |-> <<>>]
    /\ api_cfg = NoAttribute
    /\ api_last = Idle
    /\ db_cls = NoInstance
    /\ db_next_id = 1
    /\ db_graph = EmptyGraph
    /\ db_last = Idle
    /\ \E text \in ({t \in SeqsUpTo({"#", " ", "nl", "."}, MaxLen) : \E i \in DOMAIN t : ~isspace(t[i])}), c \in ({c \in [chunk_size : {3, 5}, chunk_overlap : {0, 1, 2, 4}] : c.chunk_overlap < c.chunk_size}) :
          chk_in = [text |-> text, chunk_size |-> c.chunk_size,
                    chunk_overlap |-> c.chunk_overlap]
    /\ chk_out = Idle
    /\ emb_in = NoEmbedding
    /\ emb_out = Idle
    /\ ing_schema = "None"
    /\ ing_task = [doc \in Docs |-> NewTask]
    /\ ing_log = <<>>
    /\ cli_data = "data"
    /\ cli_index = "present"
    /\ cli_last = Idle
    /\ req_work = [u \in 1..MaxRequests |-> ([pc |-> "new", closed_under |-> FALSE])]
    /\ doc_last = Idle
    /\ kg_last = Idle
    /\ bot_last = Idle

InitEmbedding ==
    /\ hyb_impl = [m \in Methods |-> "concrete"]
    /\ hyb = Idle
    /\ svc_cache = [m \in RetrievalMethod |-> 0]
    /\ svc_next_id = 1
    /\ svc_subs = NoSubs
    /\ svc_last = Idle
    /\ requests = <<>>
    /\ now = 0
    /\ admitted = [k \in LimiterKeys |-> <<>>]
    /\ api_cfg = NoAttribute
    /\ api_last = Idle
    /\ db_cls = NoInstance
    /\ db_next_id = 1
    /\ db_graph = EmptyGraph
    /\ db_last = Idle
    /\ chk_in = NoDocument
    /\ chk_out = Idle
    /\ emb_in \in [embedding : SeqsUpTo(({0, 1, 2}), MaxEmbedding), dimensions : 1..MaxDimensions]
    /\ emb_out = Idle
    /\ ing_schema = "None"
    /\ ing_task = [doc \in Docs |-> NewTask]
    /\ ing_log = <<>>
    /\ cli_data = "data"
    /\ cli_index = "present"
    /\ cli_last = Idle
    /\ req_work = [u \in 1..MaxRequests |-> ([pc |-> "new", closed_under |-> FALSE])]
    /\ doc_last = Idle
    /\ kg_last = Idle
    /\ bot_last = Idle

InitPipeline ==
    /\ hyb_impl = [m \in Methods |-> "concrete"]
    /\ hyb = Idle
    /\ svc_cache = [m \in RetrievalMethod |-> 0]
    /\ svc_next_id = 1
    /\ svc_subs = NoSubs
    /\ svc_last = Idle
    /\ requests = <<>>
    /\ now = 0
    /\ admitted = [k \in LimiterKeys |-> <<>>]
    /\ api_cfg = NoAttribute
    /\ api_last = Idle
    /\ db_cls = NoInstance
    /\ db_next_id = 1
    /\ db_graph = EmptyGraph
    /\ db_last = Idle
    /\ chk_in = NoDocument
    /\ chk_out = Idle
    /\ emb_in = NoEmbedding
    /\ emb_out = Idle
    /\ ing_schema = "None"
    /\ ing_task = [doc \in Docs |-> NewTask]
    /\ ing_log = <<>>
    /\ cli_data = "data"
    /\ cli_index = "present"
    /\ cli_last = Idle
    /\ req_work = [u \in 1..MaxRequests |-> ([pc |-> "new", closed_under |-> FALSE])]
    /\ doc_last = Idle
    /\ kg_last = Idle
    /\ bot_last = Idle

InitCli ==
    /\ hyb_impl = [m \in Methods |-> "concrete"]
    /\ hyb = Idle
    /\ svc_cache = [m \in RetrievalMethod |-> 0]
    /\ svc_next_id = 1
    /\ svc_subs = NoSubs
    /\ svc_last = Idle
    /\ requests = <<>>
    /\ now = 0
    /\ admitted = [k \in LimiterKeys |-> <<>>]
    /\ api_cfg = NoAttribute
    /\ api_last = Idle
    /\ db_cls = NoInstance
    /\ db_next_id = 1
    /\ db_graph = EmptyGraph
    /\ db_last = Idle
    /\ chk_in = NoDocument
    /\ chk_out = Idle
    /\ emb_in = NoEmbedding
    /\ emb_out = Idle
    /\ ing_schema = "None"
    /\ ing_task = [doc \in Docs |-> NewTask]
    /\ ing_log = <<>>
    /\ cli_data \in {"data", "empty"}
    /\ cli_index \in {"present", "absent"}
    /\ cli_last = Idle
    /\ req_work = [u \in 1..MaxRequests |-> ([pc |-> "new", closed_under |-> FALSE])]
    /\ doc_last = Idle
    /\ kg_last = Idle
    /\ bot_last = Idle

InitIdle ==
    /\ hyb_impl = [m \in Methods |-> "concrete"]
    /\ hyb = Idle
    /\ svc_cache = [m \in RetrievalMethod |-> 0]
    /\ svc_next_id = 1
    /\ svc_subs = NoSubs
    /\ svc_last = Idle
    /\ requests = <<>>
    /\ now = 0
    /\ admitted = [k \in LimiterKeys |-> <<>>]
    /\ api_cfg = NoAttribute
    /\ api_last = Idle
    /\ db_cls = NoInstance
    /\ db_next_id = 1
    /\ db_graph = EmptyGraph
    /\ db_last = Idle
    /\ chk_in = NoDocument
    /\ chk_out = Idle
    /\ emb_in = NoEmbedding
    /\ emb_out = Idle
    /\ ing_schema = "None"
    /\ ing_task = [doc \in Docs |-> NewTask]
    /\ ing_log = <<>>
    /\ cli_data = "data"
    /\ cli_index = "present"
    /\ cli_last = Idle
    /\ req_work = [u \in 1..MaxRequests |-> ([pc |-> "new", closed_under |-> FALSE])]
    /\ doc_last = Idle
    /\ kg_last = Idle
    /\ bot_last = Idle

NextHybrid == HybridRetrieve \/ HybridAnswerQuestion \/ HybridReturn
NextService == SvcGetRetriever \/ SvcAnswerQuestion \/ SvcReturn
NextApi == ApiRequest \/ ApiRespond \/ Tick
NextChunker == ChunkDocument
NextEmbedding == BaseEmbedQuery \/ EmbedderEmbedQuery \/ CustomGetEmbeddings
NextPipeline == IngestStart \/ IngestEmbedded \/ IngestFinish
NextCli == CliDb \/ CliIngest \/ CliExit
NextRequests == ReqBegin \/ ReqFinish \/ ReqTeardown
NextDocuments == DocumentMetadataNew \/ DocumentNew \/ StoreDocument
NextKg == KgRetrieve \/ KgReturn
NextBot == BotAppMention \/ BotMessage \/ BotReturn
NextDb == DbNew \/ DbConnect \/ DbClose \/ DbTransaction \/ DbCreateBackup \/ DbReturn

SpecHybrid == InitHybrid /\ [][NextHybrid]_vars
SpecService == InitService /\ [][NextService]_vars
SpecApi == InitApi /\ [][NextApi]_vars
SpecDb == InitDb /\ [][NextDb]_vars
SpecChunker == InitChunker /\ [][NextChunker]_vars
SpecEmbedding == InitEmbedding /\ [][NextEmbedding]_vars
SpecPipeline == InitPipeline /\ [][NextPipeline]_vars
SpecCli == InitCli /\ [][NextCli]_vars
SpecRequests == InitIdle /\ [][NextRequests]_vars
SpecKg == InitIdle /\ [][NextKg]_vars
SpecBot == InitIdle /\ [][NextBot]_vars
SpecDocuments == InitIdle /\ [][NextDocuments]_vars

TypeOK ==
    /\ hyb_impl \in [Methods -> {"concrete", "injected"}]
    /\ svc_next_id \in 1..10
    /\ now \in 0..MaxTime

(***************************************************************************)
(* Properties of Neo4jDatabase (checked under SpecDb)                      *)
(***************************************************************************)
\* C11: Neo4jDatabase is a process-wide singleton - the first construction
\* creates the shared instance with its settings and empty connection handles;
\* every later construction, with or without a settings argument, returns that
\* same instance and leaves its settings and connection handles as they were;
\* at most one instance is ever created.
C11_FirstConstruction ==
    (db_cls._instance = 0 /\ db_last'.op = "new")
    => /\ db_last'.ret # 0
       /\ db_cls'._instance = db_last'.ret
       /\ db_cls'._settings = IF db_last'.settings = "None" THEN get_settings
                              ELSE db_last'.settings
       /\ db_cls'._driver = "None"
       /\ db_cls'._async_driver = "None"

C11_LaterConstruction ==
    (db_cls._instance # 0 /\ db_last'.op = "new")
    => /\ db_last'.ret = db_cls._instance
       /\ db_cls' = db_cls

C11_Singleton ==
    /\ [](db_next_id <= 2 /\ db_cls._instance \in {0, 1})
    /\ [][C11_FirstConstruction /\ C11_LaterConstruction]_vars

\* a second construction, with another settings argument, while the driver is open
C11_Witness ==
    /\ db_last.op = "new"
    /\ db_last.settings = "s2"
    /\ db_last.ret = 1
    /\ db_cls._settings = "s1"
    /\ db_cls._driver = "open"

\* C12: transaction() - the transaction is committed exactly when the
\* enclosed block completes without error (and the commit succeeds); on an
\* error in the block or in the commit it is rolled back and the error is
\* re-raised as QueryError; on every exit path the session is closed.
C12_TransactionOutcome ==
    (db_last.op = "transaction" /\ db_last.tx.begun)
    => /\ db_last.tx.committed
            <=> (db_last.env.block = "ok" /\ db_last.env.commit = "ok")
       /\ (db_last.env.block = "raise" \/ db_last.env.commit = "raise")
            => (db_last.tx.rolled_back /\ db_last.tx.raised = "QueryError")
       /\ db_last.tx.session_opened => db_last.tx.session_closed

\* number of lines of one kind in a backup file
CountLines(file, kind) == Cardinality({i \in DOMAIN file : file[i].kind = kind})

\* C13: create_backup against a database of N nodes and M relationships
\* writes exactly N node CREATE statements and M relationship CREATE
\* statements, whatever the number of labels of a node and whether or not an
\* embedding property was left out.
C13_BackupCounts ==
    (db_last.op = "create_backup" /\ db_last.ret)
    => /\ CountLines(db_last.file, "node_create") = Len(db_graph.nodes)
       /\ CountLines(db_last.file, "rel_create") = Len(db_graph.rels)

\* C30: with the process-wide shared connection, where each API request's
\* teardown calls close() on the singleton, a close() issued at the end of
\* one unit of work never closes the driver underneath another unit of work
\* whose session or query is still in flight, and an operation started after
\* a close() re-establishes the driver instead of failing on a closed handle.
C30_CloseSparesOpenSessions ==
    \A u \in 1..MaxRequests :
       req_work[u].pc = "open" =>
          /\ ~req_work[u].closed_under
          /\ db_cls._driver # "None"

\* the second half alone: a unit of work whose session was opened after the
\* last close() runs on an open driver
C30_ReconnectsAfterClose ==
    \A u \in 1..MaxRequests :
       (req_work[u].pc = "open" /\ ~req_work[u].closed_under) => db_cls._driver # "None"

(***************************************************************************)
(* Properties of DocumentChunker (checked under SpecChunker)               *)
(***************************************************************************)
\* chunk_document has returned chunks for the text at hand
Chunked == chk_out.op = "chunk_document" /\ chk_out.kind = "ok"

\* the document had text in front of its first heading
HasPreamble ==
    /\ chk_out.path = "semantic"
    /\ \E p \in LineStarts(chk_in.text) : IsHeading(LineAt(chk_in.text, p))
    /\ ~IsHeading(LineAt(chk_in.text, 0))

\* C14: for a non-empty text and fixed (chunk_size, chunk_overlap), the ranges
\* [start_char, end_char) of the chunks, in index order, cover [0, len(text))
\* without gaps, and adjacent chunks overlap by at most chunk_overlap characters.
C14_CoverageAndOverlap ==
    Chunked
    => LET c == chk_out.chunks
           n == Len(c)
       IN /\ n >= 1
          /\ c[1].start_char = 0
          /\ c[n].end_char = Len(chk_in.text)
          /\ \A i \in 1..(n - 1) :
                /\ c[i + 1].start_char <= c[i].end_char
                /\ c[i].end_char - c[i + 1].start_char <= chk_in.chunk_overlap

\* C15: every chunk c of a document with text T has
\* 0 <= c.start_char < c.end_char <= len(T), c.text = T[c.start_char:c.end_char],
\* and the chunk indexes are 0..n-1 in document order.
C15_ChunkOffsets ==
    Chunked
    => \A i \in DOMAIN chk_out.chunks :
          LET c == chk_out.chunks[i]
          IN /\ 0 <= c.start_char
             /\ c.start_char < c.end_char
             /\ c.end_char <= Len(chk_in.text)
             /\ c.text = SubSeq(chk_in.text, c.start_char + 1, c.end_char)
             /\ c.index = i - 1

\* the width of the range in which _find_split_point looks for a sentence
\* end or a word boundary: range(max_size - 1, max_size // 2, -1)
SplitWindow(max_size) == max_size - (max_size \div 2)

\* C16: no chunk is longer than chunk_size plus the width of one split-point
\* search window, on the fixed-window path and on the semantic path (buffer
\* flush, oversize split, final flush).
C16_ChunkLength ==
    Chunked
    => \A i \in DOMAIN chk_out.chunks :
          Len(chk_out.chunks[i].text)
             <= chk_in.chunk_size + SplitWindow(chk_in.chunk_size)

\* a structured text longer than two chunks, split at a paragraph break
C16_Witness ==
    /\ Chunked
    /\ chk_out.path = "semantic"
    /\ chk_in.chunk_size = 5
    /\ Len(chk_in.text) = MaxLen
    /\ Len(chk_out.chunks) >= 2
    /\ Len(chk_out.chunks[1].text) = 5
    /\ chk_out.chunks[1].text[4] = "nl"
    /\ chk_out.chunks[1].text[5] = "nl"

\* C29: DocumentChunker terminates on every input: for every text and every
\* configuration with 0 <= chunk_overlap < chunk_size the fixed-window loop
\* and the semantic path's `while len(current_chunk) > chunk_size` loop
\* shrink the remaining buffer on each iteration, so chunking finishes.
C29_ChunkerTerminates ==
    (/\ chk_out.op = "chunk_document"
     /\ 0 <= chk_in.chunk_overlap
     /\ chk_in.chunk_overlap < chk_in.chunk_size)
    => chk_out.kind # "hang"

\* the same for the fixed-window path, and for the semantic path when the
\* overlap is at most half the chunk size
C29_TerminatesOtherwise ==
    (/\ chk_out.op = "chunk_document"
     /\ \/ chk_out.path = "simple"
        \/ 2 * chk_in.chunk_overlap <= chk_in.chunk_size)
    => chk_out.kind # "hang"

(***************************************************************************)
(* Properties of the document models (checked under SpecDocuments)         *)
(***************************************************************************)
\* a text with a character that is not whitespace
C23_HasContent(text) == \E i \in DOMAIN text : text[i] \notin {" ", "nl"}

\* C23: constructing a Document with empty or whitespace-only text, or a
\* DocumentMetadata with an empty source, fails with a validation error, and
\* no object with an empty required field comes out of a constructor;
\* construction with non-empty required fields succeeds, and source_type
\* defaults to "file".
C23_RequiredFields ==
    /\ (doc_last # Idle /\ doc_last.op = "DocumentMetadata") =>
          IF doc_last.source = ""
          THEN doc_last.out = [kind |-> "raise", err |-> "ValidationError"]
          ELSE /\ doc_last.out.kind = "ok"
               /\ doc_last.out.obj.source = doc_last.source
               /\ doc_last.out.obj.source_type =
                     IF doc_last.source_type = "absent" THEN "file"
                     ELSE doc_last.source_type
    /\ (doc_last # Idle /\ doc_last.op = "Document") =>
          LET given == doc_last.metadata
              source == IF given.type = "dict" THEN given.source ELSE given.obj.source
          IN IF ~C23_HasContent(doc_last.text) \/ source = ""
             THEN doc_last.out = [kind |-> "raise", err |-> "ValidationError"]
             ELSE /\ doc_last.out.kind = "ok"
                  /\ doc_last.out.obj.text = doc_last.text
                  /\ doc_last.out.obj.metadata.source = source
                  /\ doc_last.out.obj.metadata.source_type = "file"
                        \/ given.type = "object"

\* a whitespace-only text is refused although its metadata is valid
C23_Witness ==
    /\ doc_last # Idle
    /\ doc_last.op = "Document"
    /\ doc_last.text = <<" ", "nl">>
    /\ doc_last.metadata.type = "object"
    /\ doc_last.metadata.obj = [source |-> "test.md", source_type |-> "file"]
    /\ doc_last.out.kind = "raise"

\* the stored chunks form one chain in index order and each is part of the
\* document
C24_Chained(out) ==
    /\ \A c \in out.chunks :
          LET incoming == {e \in out.next : e[2] = c}
              before == {b \in out.chunks : b < c}
          IN IF before = {} THEN incoming = {}
             ELSE incoming = {<<CHOOSE b \in before : \A x \in before : x <= b, c>>}
    /\ \A e \in out.next : e[1] \in out.chunks /\ e[2] \in out.chunks
    /\ out.part_of = out.chunks
    /\ out.chunks # {} => out.document

\* C24: after store_document_embeddings succeeds for a document, the stored
\* chunk nodes form a single singly-linked "next chunk" chain in strictly
\* increasing chunk-index order (each stored chunk except the first has
\* exactly one incoming NEXT_CHUNK edge, from the stored chunk that precedes
\* it), and every stored chunk has exactly one "part of document" edge to the
\* document's node.
C24_ChunkChain ==
    (doc_last # Idle /\ doc_last.op = "store" /\ doc_last.out.ret = "success")
    => C24_Chained(doc_last.out)

\* the same when the configured document label is the one the document node
\* is created with
C24_ChainWithDefaultLabel ==
    (/\ doc_last # Idle
     /\ doc_last.op = "store"
     /\ doc_last.out.ret = "success"
     /\ doc_last.env.document_label = "Document")
    => /\ C24_Chained(doc_last.out)
       /\ doc_last.out.chunks = 1..doc_last.n

(***************************************************************************)
(* Properties of EnhancedKGRetriever (checked under SpecKg)                *)
(***************************************************************************)
\* C25: if Cypher generation fails outright (the model call raises) or
\* yields UNKNOWN (a reply rejected by validation included), the
\* keyword-based fallback query is constructed and used as the Cypher
\* statement instead.
C25_FallbackOnUnknown ==
    (/\ kg_last # Idle
     /\ \/ kg_last.llm.kind = "raise"
        \/ kg_last.cypher = <<"UNKNOWN">>)
    => /\ kg_last.executed # <<>>
       /\ kg_last.executed[1] = "fallback"

\* the first half alone: a model call that raises leads to the fallback query
C25_FallbackOnException ==
    (kg_last # Idle /\ kg_last.llm.kind = "raise")
    => /\ kg_last.executed # <<>>
       /\ kg_last.executed[1] = "fallback"

\* a fenced reply is unwrapped and executed as it is
C25_FencedReply ==
    /\ kg_last # Idle
    /\ kg_last.llm.kind = "ok"
    /\ kg_last.llm.content = <<"fence", "cyphe", "r", "nl", "MATCH">>
    /\ kg_last.executed = <<"MATCH">>

(***************************************************************************)
(* Properties of the embedding normalization (checked under SpecEmbedding) *)
(***************************************************************************)
\* C17: for an embedding of length k and configured dimensionality d, the
\* normalized vector has length exactly d: the first d elements when k > d,
\* the original followed by d - k zeros when k < d, the original when k = d;
\* BaseRetriever.embed_query, ChunkEmbedder.embed_query and
\* CustomVectorRetriever._get_embeddings all compute this.
C17_NormalizedDimensions ==
    emb_out # Idle
    => LET v == emb_in.embedding
           k == Len(emb_in.embedding)
           d == emb_in.dimensions
       IN /\ Len(emb_out.ret) = d
          /\ \A i \in 1..d : emb_out.ret[i] = IF i <= k THEN v[i] ELSE 0
          /\ k = d => emb_out.ret = v

\* the chunk embedder pads a short embedding that ends in a non-zero value
C17_Witness ==
    /\ emb_out # Idle
    /\ emb_out.op = "ChunkEmbedder.embed_query"
    /\ emb_in.embedding = <<1, 2>>
    /\ emb_in.dimensions = 3
    /\ emb_out.ret = <<1, 2, 0>>

(***************************************************************************)
(* Properties of IngestionPipeline (checked under SpecPipeline)            *)
(***************************************************************************)
\* C18: ingest_document always returns a result that carries the elapsed
\* time and a status of success or error (an error with a message), whichever
\* stage fails - file check, clear, load, chunking, embedding, storage,
\* knowledge-graph build; a failing stage gives an error result, never an
\* exception.
C18_AlwaysReturnsResult ==
    \A doc \in Docs :
       ing_task[doc].pc = "done"
       => /\ ing_task[doc].result.kind = "return"
          /\ ing_task[doc].result.status \in {"success", "error"}
          /\ ing_task[doc].result.has_time_taken
          /\ ing_task[doc].result.status = "error"
                => ing_task[doc].result.message # "absent"

\* the schema detections recorded for a document
DetectionsOf(doc) ==
    {i \in DOMAIN ing_log : ing_log[i].kind = "detect" /\ ing_log[i].doc = doc}

\* C19: in advanced mode the schema is detected once per document, from that
\* document's text, before any of its chunks is extracted, and every chunk of
\* the document is extracted against that document's schema - for each of
\* several documents ingested through one pipeline instance.
C19_SchemaPerDocument ==
    \A j \in DOMAIN ing_log :
       ing_log[j].kind = "extract"
       => /\ Cardinality(DetectionsOf(ing_log[j].doc)) = 1
          /\ \A i \in DetectionsOf(ing_log[j].doc) :
                i < j /\ ing_log[i].schema = ing_log[j].schema

(***************************************************************************)
(* Properties of the command-line tool (checked under SpecCli)             *)
(***************************************************************************)
\* C20: every destructive console operation - wiping the database with
\* `db --clear` or `ingest --clear`, dropping the vector index with
\* `db --reset-vector-index` - is performed only after --force or after an
\* affirmative answer at the confirmation prompt; without one of the two
\* nothing is deleted.
C20_DestructiveNeedsConsent ==
    (cli_last # Idle /\ (cli_last.deleted \/ cli_last.dropped))
    => \/ cli_last.force
       \/ cli_last.asked /\ cli_last.answer \in {"y", "Y"}

(***************************************************************************)
(* Properties of HybridRetriever (checked under SpecHybrid)                *)
(***************************************************************************)
Answered(c) == c.out.kind = "ok"
Raised(c) == c.out.kind = "raise"
CallsTo(m) == Cardinality({i \in DOMAIN hyb.calls : hyb.calls[i].method = m})

\* C1: answer_question - when the primary strategy's answer contains the marker
\* "Not applicable:" and the fallback strategy's answer does not, the response
\* returned is the fallback's (answer, method tag, context), not the primary's.
C1_NotApplicableSupersession ==
    (/\ hyb.op = "answer"
     /\ Len(hyb.calls) >= 2
     /\ Answered(hyb.calls[1])
     /\ \E i \in DOMAIN hyb.calls[1].out.resp.answer :
            hyb.calls[1].out.resp.answer[i] = Marker
     /\ Answered(hyb.calls[2])
     /\ \A i \in DOMAIN hyb.calls[2].out.resp.answer :
            hyb.calls[2].out.resp.answer[i] # Marker)
    => /\ hyb.calls[1].method = hyb.plan.primary
       /\ hyb.calls[2].method = hyb.plan.fallback
       /\ hyb.result = hyb.calls[2].out
       /\ hyb.result # hyb.calls[1].out

\* a primary answer with the marker in the middle, superseded by the fallback's
C1_Witness ==
    /\ hyb.op = "answer"
    /\ Len(hyb.calls) = 2
    /\ Answered(hyb.calls[1])
    /\ hyb.calls[1].out.resp.answer = <<"info", Marker>>
    /\ Answered(hyb.calls[2])
    /\ hyb.calls[2].out.resp.answer = <<"info">>
    /\ hyb.result = hyb.calls[2].out
    /\ hyb.result.resp.retrieval_method = hyb.plan.fallback

\* the claim's reading of "not good enough"
WeakResult(results, method) ==
    IF method \in {"kg", "enhanced_kg"}
    THEN \A i \in DOMAIN results : \A j \in DOMAIN results[i] : results[i][j] = 0
    ELSE Len(results) < 3

\* C2: retrieve - if the primary result is empty/insufficient or the primary
\* raises, the fallback is tried; if the fallback raises too and is not
\* `vector`, one last attempt goes to the vector strategy; otherwise [] is
\* returned; retrieve never raises to its caller.
C2_RetrieveNeverRaises ==
    hyb.op = "retrieve" =>
        /\ (Raised(hyb.calls[1])
              \/ WeakResult(hyb.calls[1].out.results, hyb.plan.primary))
             => /\ Len(hyb.calls) >= 2
                /\ hyb.calls[2].method = hyb.plan.fallback
        /\ (Len(hyb.calls) >= 2 /\ Raised(hyb.calls[2]))
             => IF hyb.plan.fallback # "vector"
                THEN Len(hyb.calls) = 3 /\ hyb.calls[3].method = "vector"
                ELSE Len(hyb.calls) = 2 /\ hyb.result = [kind |-> "ok", results |-> <<>>]
        /\ hyb.result.kind = "ok"

\* C3: retrieve calls the configured fallback retriever exactly once whenever
\* the primary result is not good enough (vector/graphrag: fewer than 3
\* results; kg/enhanced_kg: every record has only falsy values), and not at
\* all when the primary result is good enough.
C3_FallbackExactlyOnce ==
    (hyb.op = "retrieve" /\ Answered(hyb.calls[1])) =>
        /\ hyb.calls[1].method = hyb.plan.primary
        /\ IF WeakResult(hyb.calls[1].out.results, hyb.plan.primary)
           THEN /\ CallsTo(hyb.plan.fallback) = 1
                /\ hyb.calls[2].method = hyb.plan.fallback
           ELSE /\ hyb.calls = <<hyb.calls[1]>>
                /\ hyb.result = hyb.calls[1].out

\* a non-empty KG-shaped primary result whose values are all falsy sends the
\* call to the fallback
C3_Witness ==
    /\ hyb.op = "retrieve"
    /\ hyb.plan.primary = "enhanced_kg"
    /\ Answered(hyb.calls[1])
    /\ hyb.calls[1].out.results = <<<<0>>, <<0>>>>
    /\ Len(hyb.calls) >= 2
    /\ hyb.calls[2].method = hyb.plan.fallback

\* C4: answer_question - if the primary raises, the fallback's pipeline is run
\* in its place; if both raise, the generic apology is returned with method
\* tag `hybrid` and both error messages in metadata (`error`,
\* `fallback_error`); no exception of either strategy reaches the caller.
C4_AnswerErrorFallback ==
    hyb.op = "answer" =>
        /\ hyb.result.kind = "ok"
        /\ Raised(hyb.calls[1]) =>
              /\ Len(hyb.calls) = 2
              /\ hyb.calls[2].method = hyb.plan.fallback
              /\ Answered(hyb.calls[2]) => hyb.result = hyb.calls[2].out
              /\ Raised(hyb.calls[2]) =>
                    /\ hyb.result.resp.answer = Apology
                    /\ hyb.result.resp.retrieval_method = "hybrid"
                    /\ hyb.result.resp.metadata =
                          { <<"error", hyb.calls[1].out.err>>,
                            <<"fallback_error", hyb.calls[2].out.err>> }

\* both strategies raise, with different errors
C4_Witness ==
    /\ hyb.op = "answer"
    /\ Len(hyb.calls) = 2
    /\ Raised(hyb.calls[1]) /\ hyb.calls[1].out.err = "e1"
    /\ Raised(hyb.calls[2]) /\ hyb.calls[2].out.err = "e2"
    /\ hyb.result.kind = "ok"
    /\ hyb.result.resp.retrieval_method = "hybrid"

\* C5: whenever the primary strategy's answer pipeline fails (also when the
\* vector or graphrag retriever absorbs the failure into an error-tagged
\* response) and the fallback strategy can answer, answer_question returns the
\* fallback's answer rather than the primary's failure.
C5_RecoversFromFailedPrimary ==
    (/\ hyb.op = "answer"
     /\ hyb.p.kind = "raise"
     /\ hyb.f.kind = "ok"
     /\ hyb.f.answer = <<"info">>)
    => /\ hyb.result.kind = "ok"
       /\ hyb.result.resp.answer = <<"info">>
       /\ hyb.result.resp.context = hyb.f.context
       /\ hyb.result.resp.retrieval_method = MethodTag(hyb.plan.fallback)

\* C28: within one call to HybridRetriever.answer_question the primary
\* strategy's answer pipeline is invoked exactly once and the fallback
\* strategy's at most once, on every path.
C28_PipelinesInvokedOnce ==
    hyb.op = "answer" =>
        /\ CallsTo(hyb.plan.primary) = 1
        /\ CallsTo(hyb.plan.fallback) <= 1

\* the same, when the primary did not both answer with the marker and see
\* the fallback raise
C28_OtherPaths ==
    (/\ hyb.op = "answer"
     /\ ~(/\ Answered(hyb.calls[1])
          /\ HasMarker(hyb.calls[1].out.resp.answer)
          /\ Len(hyb.calls) >= 2
          /\ Raised(hyb.calls[2])))
    => /\ CallsTo(hyb.plan.primary) = 1
       /\ CallsTo(hyb.plan.fallback) <= 1

\* a word of the model's reply that names one of the four categories
C27_NamesCategory(w) ==
    w \in {"factual", "procedural", "PROCEDURAL", "entity", "Entity", "relationship"}

\* C27: QueryClassifier.classify returns exactly one of factual, procedural,
\* entity, relationship for every model response, and returns factual
\* whenever the model call raises or the response names none of the four
\* categories; the model's exception never leaves classify.
C27_ClassifyTotal ==
    hyb.op \in {"retrieve", "answer"} =>
        /\ hyb.query_type \in {"factual", "procedural", "entity", "relationship"}
        /\ hyb.cls.kind = "raise" => hyb.query_type = "factual"
        /\ (hyb.cls.kind = "ok"
               /\ \A i \in DOMAIN hyb.cls.content : ~C27_NamesCategory(hyb.cls.content[i]))
              => hyb.query_type = "factual"
        /\ (hyb.cls.kind = "ok" /\ hyb.query_type # "factual")
              => \E i \in DOMAIN hyb.cls.content : C27_NamesCategory(hyb.cls.content[i])

\* the model call raised and the retrieval went on with the factual plan
C27_Witness ==
    /\ hyb.op = "retrieve"
    /\ hyb.cls.kind = "raise"
    /\ hyb.query_type = "factual"
    /\ hyb.plan = [primary |-> "graphrag", fallback |-> "vector"]
    /\ hyb.calls # <<>>

(***************************************************************************)
(* Properties of RetrievalService (checked under SpecService)              *)
(***************************************************************************)
\* C6: RetrievalService.answer_question turns any exception raised while
\* resolving the retriever or answering (an unrecognised method name
\* included) into an error-tagged QueryResponse with the elapsed time and the
\* error text; it never propagates an exception.
C6_ServiceNeverRaises ==
    svc_last.op = "answer_question" =>
        /\ svc_last.out.kind = "ok"
        /\ svc_last.raw.kind = "raise" =>
              /\ svc_last.out.resp.query_time = svc_last.elapsed
              /\ \E e \in svc_last.out.resp.metadata : e[1] = "error"

InvalidMethodError(v) == [kind |-> "raise", err |-> <<"Invalid retrieval method:", v>>]

\* C7 (state part): a method name is accepted in any letter case and the call
\* returns the instance the service caches for that method; an unrecognised
\* name raises the error naming the value as given.
C7_CaseInsensitiveLookup ==
    (svc_last.op = "get_retriever" /\ svc_last.method.type = "str") =>
        LET v == svc_last.method.v
            known == \E m \in RetrievalMethod : StrLower(v) = m
        IN IF known
           THEN /\ svc_last.out # InvalidMethodError(v)
                /\ svc_last.out.kind = "ok" =>
                      /\ svc_last.out.retriever # 0
                      /\ svc_last.out.retriever = svc_cache[StrLower(v)]
           ELSE svc_last.out = InvalidMethodError(v)

\* C7 (step part): once an instance is cached for a method no later call
\* replaces it.
C7_CacheIsStable ==
    \A m \in RetrievalMethod : svc_cache[m] # 0 => svc_cache'[m] = svc_cache[m]

\* C7: get_retriever accepts a method name in any letter case, returns the
\* same cached instance on every repeated call with the same method after any
\* sequence of calls, and raises a validation error naming the offending value
\* for an unrecognised name.
C7_GetRetriever == [](C7_CaseInsensitiveLookup) /\ [][C7_CacheIsStable]_vars

\* a repeated call, spelt in upper case, served from the cache
C7_Witness ==
    /\ svc_last.op = "get_retriever"
    /\ svc_last.method = [type |-> "str", v |-> "VECTOR"]
    /\ svc_last.hit
    /\ svc_last.out.kind = "ok"
    /\ svc_last.out.retriever = svc_cache["vector"]

\* the step in which the facade builds its hybrid retriever
C26_HybridBuilt == svc_cache["hybrid"] = 0 /\ svc_cache'["hybrid"] # 0

\* C26: the hybrid retriever is wired with whichever of the other four
\* retrievers the facade has already constructed: each one that exists when
\* hybrid is first requested is the very instance hybrid uses, each one that
\* does not is built afresh inside hybrid (an object no slot of the facade
\* holds and no other slot of hybrid shares), and later get_retriever calls
\* never change the instances the cached hybrid retriever uses.
C26_HybridWiring ==
    [][/\ C26_HybridBuilt =>
             \A m \in Methods :
                IF svc_cache[m] # 0
                THEN svc_subs'[m] = svc_cache[m]
                ELSE /\ svc_subs'[m] >= svc_next_id
                     /\ svc_subs'[m] < svc_next_id'
                     /\ \A n \in RetrievalMethod : svc_cache'[n] # svc_subs'[m]
                     /\ \A n \in Methods \ {m} : svc_subs'[n] # svc_subs'[m]
       /\ svc_cache["hybrid"] # 0 =>
             svc_subs' = svc_subs /\ svc_cache'["hybrid"] = svc_cache["hybrid"]]_vars

\* hybrid was built after the vector retriever and before the kg retriever:
\* it shares the facade's vector retriever and keeps a kg retriever of its
\* own after the facade has built another
C26_Witness ==
    /\ svc_cache["hybrid"] # 0
    /\ svc_subs["vector"] = svc_cache["vector"]
    /\ svc_cache["kg"] # 0
    /\ svc_subs["kg"] # svc_cache["kg"]
    /\ svc_subs["kg"] < svc_cache["hybrid"]
    /\ svc_cache["kg"] > svc_cache["hybrid"]

(***************************************************************************)
(* Properties of the API's request guard (checked under SpecApi)           *)
(***************************************************************************)
\* C8: per client IP at most requests_per_minute requests are admitted in any
\* one-minute window, so a further request inside the window gets 429; a
\* request is rejected only on account of its own IP's window.
C8_RateLimit ==
    /\ \A k \in LimiterKeys : Len(admitted[k]) <= requests_per_minute
    /\ api_last.op = "request" =>
          (api_last.status = 429 <=> api_last.seen >= requests_per_minute)

\* one IP has used up its window and is turned away while another IP, with
\* requests of its own in the window, is not
C8_Witness ==
    /\ api_last.op = "request"
    /\ api_last.status = 429
    /\ api_last.client_ip = "p1"
    /\ Len(admitted["p1"]) = requests_per_minute
    /\ Len(admitted["p2"]) \in 1..(requests_per_minute - 1)

\* C9: the supplied key is compared case-insensitively with the configured
\* key; with no key configured every request is allowed (with a security-log
\* warning); with a key configured a missing key gets 403, a mismatched key
\* gets 403, and the right key in any letter case is admitted.
C9_ApiKeyCheck ==
    (api_last.op = "request" /\ api_last.status # 429) =>
        LET key == api_last.request.api_key
            configured == IF api_cfg = NoAttribute THEN "" ELSE api_cfg
        IN IF configured = ""
           THEN api_last.status = 200 /\ api_last.log = "No API key configured"
           ELSE IF key \in {"None", ""}
           THEN api_last.status = 403
           ELSE IF StrLower(key) = StrLower(configured)
           THEN api_last.status = 200
           ELSE api_last.status = 403

\* C10: the rate limiter is keyed by the first entry of X-Forwarded-For when
\* the header is present and by the peer address otherwise, so two requests of
\* one peer with different forwarded client IPs land in different windows.
C10_ForwardedClientIp ==
    api_last.op = "request" =>
        /\ api_last.client_ip = get_client_ip(api_last.request)
        /\ api_last.status # 429 =>
              admitted[api_last.client_ip][Len(admitted[api_last.client_ip])]
                  = api_last.at

(***************************************************************************)
(* Properties of the chat bot (checked under SpecBot)                      *)
(***************************************************************************)
\* the answer names none of the four no-information phrases, in any of the
\* letter cases the API's answers come in
C21_Confident(answer) ==
    \A i \in DOMAIN answer :
        answer[i] \notin {"I don't have enough information", "I DON'T HAVE ENOUGH INFORMATION",
                          "I couldn't find information", "No relevant information",
                          "not enough context"}

\* C21: for a question that is the root message of a monitored channel and
\* that the API answered, an answer naming one of the four no-information
\* phrases (in any letter case) is suppressed in a channel that is not in
\* the always-respond list and posted behind the uncertainty disclaimer in a
\* channel that is; an answer naming none of them is posted unmodified in
\* either kind of channel.  Whatever is posted is one message, and it is
\* missing only when both the block reply and the plain reply fail.
C21_ChannelPolicy ==
    (/\ bot_last # Idle
     /\ bot_last.handler = "message"
     /\ bot_last.event.skip = "none"
     /\ bot_last.event.channel_type = "channel"
     /\ bot_last.event.thread_ts \in {0, bot_last.event.ts}
     /\ bot_last.event.channel \in {"general", "ask_vivun"}
     /\ bot_last.env.info = "ok"
     /\ bot_last.event.text = "question"
     /\ bot_last.response.kind = "answer")
    => LET answer == bot_last.response.answer
           always == bot_last.event.channel = "ask_vivun"
           delivered == \E i \in 1..2 : bot_last.env.posts[i] = "ok"
       IN IF ~C21_Confident(answer) /\ ~always
          THEN bot_last.posted = <<>>
          ELSE IF ~delivered
          THEN bot_last.posted = <<>>
          ELSE /\ Len(bot_last.posted) = 1
               /\ bot_last.posted[1].body.answer =
                     IF C21_Confident(answer) THEN answer
                     ELSE <<"I'm not entirely sure about this, but here's what I found:">>
                          \o answer

\* an answer with a phrase in capital letters, posted behind the disclaimer
\* in the always-respond channel
C21_Witness ==
    /\ bot_last # Idle
    /\ bot_last.handler = "message"
    /\ bot_last.event.channel = "ask_vivun"
    /\ bot_last.response.kind = "answer"
    /\ bot_last.response.answer = <<"Paris.", "I DON'T HAVE ENOUGH INFORMATION">>
    /\ Len(bot_last.posted) = 1
    /\ bot_last.posted[1].body.answer =
          <<"I'm not entirely sure about this, but here's what I found:",
            "Paris.", "I DON'T HAVE ENOUGH INFORMATION">>

\* C22: every message the bot posts in reply to an app mention, a direct
\* message or a monitored-channel message, on the normal path and on the
\* fallback path, is posted with a thread timestamp.
C22_RepliesThreaded ==
    bot_last # Idle =>
        \A i \in DOMAIN bot_last.posted : bot_last.posted[i].thread_ts # 0

\* the channel handler alone: each of its replies goes to the thread of the
\* message answered
C22_ChannelRepliesThreaded ==
    (/\ bot_last # Idle
     /\ bot_last.handler = "message"
     /\ bot_last.event.channel_type = "channel")
    => \A i \in DOMAIN bot_last.posted :
          /\ bot_last.posted[i].via = "chat_postMessage"
          /\ bot_last.posted[i].thread_ts = bot_last.event.ts

\* an app mention answered on the normal path, in the thread of the mention
C22_MentionThreaded ==
    /\ bot_last # Idle
    /\ bot_last.handler = "app_mention"
    /\ bot_last.event.thread_ts = 1
    /\ Len(bot_last.posted) = 2
    /\ \A i \in 1..2 : bot_last.posted[i].thread_ts = 1

====
